---- MODULE Spec2Model ----
(***************************************************************************)
(* Model of the balanced pair sampler create_balanced_dataset of           *)
(* src/datasetGenaratorPStyle.py.  One call of the function is a state     *)
(* machine whose steps are the statements of its body; every random draw   *)
(* is a nondeterministic choice over the outcomes the draw can produce.    *)
(***************************************************************************)
EXTENDS Integers, Sequences, FiniteSets, TLC

VARIABLES
    pc,                 \* position in create_balanced_dataset
    num_samples,        \* parameter num_samples
    include_tables,     \* parameter include_tables
    generate_image,     \* parameter / local generate_image: None or a function
    pools,              \* attribute pools read through globals() (lines 212-221)
    image_pairs,        \* list of (img_1_path, img_2_path)
    style_labels,       \* list of style labels
    font_labels,        \* list of font labels
    style_label_count,  \* Counter({0: 0, 1: 0})
    i,                  \* counter for image naming
    is_same,            \* the coin of line 239
    attrs,              \* the per-slide locals assigned at lines 243-279
    content,            \* the per-pair locals assigned at lines 295-305
    calls,              \* the generate_image calls made in this iteration
    text,               \* one call of a text helper of src/slide_generator.py
    render,             \* one call of generate_image of src/slide_generator.py
    llm                 \* one call of a method of LLMTextGenerator

\* The variables of create_balanced_dataset.
samplerVars == <<pc, num_samples, include_tables, generate_image, pools,
                 image_pairs, style_labels, font_labels, style_label_count,
                 i, is_same, attrs, content, calls>>

\* The variables of the components create_balanced_dataset only calls.
calleeVars == <<text, render, llm>>

vars == <<samplerVars, calleeVars>>

None == "None"

(* ---------------------------- bounds --------------------------------- *)

\* largest num_samples the model calls the function with
MaxSamples == 2

\* largest number of values in the pool that a configuration widens
MaxPool == 2

\* largest table_max_rows the function is called with
MaxTableRows == 2

(* ------------------------ program constants -------------------------- *)

\* the defaults of table_min_rows and table_min_cols (line 181); the caller
\* passes table_max_rows = MaxTableRows and table_max_cols = table_min_cols
table_min_rows == 2
table_max_rows == MaxTableRows
table_min_cols == 2
table_max_cols == table_min_cols

\* random.choice((16, 18, 20)) and random.choice((32, 36, 40))
FontSizeChoices == {16, 18, 20}
TitleFontSizeChoices == {32, 36, 40}

\* img_size, logo_size and border_color when the globals do not override
\* them (lines 66, 88, 89, 216, 222, 223)
DEFAULT_IMG_SIZE == <<1024, 768>>
DEFAULT_LOGO_SIZE == <<120, 120>>
DEFAULT_BORDER_COLOR == "#000000"

(* --------------------------- attribute pools -------------------------- *)

PoolNames == {"font_list", "background_colors", "text_colors", "border",
              "logo_path", "logo_position", "table_borders",
              "table_border_colors"}

\* the leading entries of the DEFAULT_* pools (lines 6-87); a configuration
\* installed through the module globals takes a prefix of each
DefaultPools ==
    [font_list |-> <<"arial.ttf", "arialbd.ttf", "times.ttf", "timesbd.ttf">>,
     background_colors |-> <<"#FFFFFF", "#FAFAFA", "#F5F5F5", "#F0F0F0">>,
     text_colors |-> <<"#000000", "#0A0A0A", "#141414", "#1a1a1a">>,
     border |-> <<1, 2, 3, 4>>,
     logo_path |-> <<"OIP.png", "OIP (1).png", "OIP (2).png", "OIP (3).png">>,
     logo_position |-> <<"top-left", "top-right", "bottom-left",
                         "bottom-right">>,
     table_borders |-> <<1, 2, 3, 4>>,
     table_border_colors |-> <<"#000000", "#1a1a1a", "#262626", "#333333">>]

\* the first n entries of a pool, as the set random.choice draws from
Prefix(pool, n) == {pool[k] : k \in 1..n}

\* the pools in which pool `wide` holds MaxPool values and every other pool
\* a single value; wide = None is the fully degenerate configuration
PoolConfig(wide) ==
    [p \in PoolNames |->
        Prefix(DefaultPools[p], IF p = wide THEN MaxPool ELSE 1)]

PoolConfigs == {PoolConfig(w) : w \in PoolNames \cup {None}}

Degenerate(ps) == \A p \in PoolNames : Cardinality(ps[p]) = 1

(* ------------------------------ helpers ------------------------------- *)

\* an optional list: None, or a list
NoneList == [none |-> TRUE, list |-> <<>>]
SomeList(l) == [none |-> FALSE, list |-> l]

\* Python truth value of an optional list
Truthy(x) == ~x.none /\ Len(x.list) > 0

\* generate_table_data(num_rows, num_cols): headers and data of that shape
generate_table_data(num_rows, num_cols) ==
    [headers |-> SomeList([c \in 1..num_cols |-> "header"]),
     data    |-> SomeList([r \in 1..num_rows |->
                              [c \in 1..num_cols |-> "cell"]])]

\* number of entries of a label list equal to v
RECURSIVE CountOf(_, _)
CountOf(s, v) ==
    IF s = <<>> THEN 0
    ELSE (IF Head(s) = v THEN 1 ELSE 0) + CountOf(Tail(s), v)

\* target_per_class = num_samples // 2
target_per_class == num_samples \div 2

NoAttrs == <<>>
NoContent == <<>>

\* A callee that is not running: create_balanced_dataset reaches the text
\* helpers and the text generator only through its generate_image argument.
NotCalled == [pc |-> "not called"]

\* lines 199-223: the state at entry, for the given arguments and globals
Entry(samples, tables, poolConfigs) ==
    /\ pc = "start"
    /\ num_samples \in samples
    /\ include_tables \in tables
    /\ generate_image \in {None, "fn"}
    /\ pools \in poolConfigs
    /\ image_pairs = <<>>
    /\ style_labels = <<>>
    /\ font_labels = <<>>
    /\ style_label_count = [l \in {0, 1} |-> 0]
    /\ i = 0
    /\ is_same = FALSE
    /\ attrs = NoAttrs
    /\ content = NoContent
    /\ calls = <<>>
    /\ text = NotCalled
    /\ render = NotCalled
    /\ llm = NotCalled

Init == Entry(0..MaxSamples, BOOLEAN, PoolConfigs)

(* ------------------- lines 225-237: before the loop ------------------- *)

\* lines 226-227: an absent parameter is looked up in the module globals,
\* which hold a function or nothing
LookupGenerateImage ==
    /\ pc = "start"
    /\ IF generate_image = None
       THEN \E g \in {None, "fn"} : generate_image' = g
       ELSE generate_image' = generate_image
    /\ pc' = "check"
    /\ UNCHANGED <<calleeVars, num_samples, include_tables, pools, image_pairs,
                   style_labels, font_labels, style_label_count, i, is_same,
                   attrs, content, calls>>

\* mutant of CheckGenerateImage: the missing function is not reported
CheckGenerateImageNoRaise ==
    /\ pc = "check"
    /\ pc' = "while"
    /\ UNCHANGED <<calleeVars, num_samples, include_tables, generate_image, pools,
                   image_pairs, style_labels, font_labels, style_label_count,
                   i, is_same, attrs, content, calls>>

\* lines 228-234: raise NameError when there is still no function
CheckGenerateImage ==
    /\ pc = "check"
    /\ pc' = IF generate_image = None THEN "raised" ELSE "while"
    /\ UNCHANGED <<calleeVars, num_samples, include_tables, generate_image, pools,
                   image_pairs, style_labels, font_labels, style_label_count,
                   i, is_same, attrs, content, calls>>

\* line 237 and line 373: the loop test, and the return when it fails
LoopTest ==
    /\ pc = "while"
    /\ pc' = IF Len(image_pairs) < num_samples THEN "flip" ELSE "returned"
    /\ calls' = <<>>
    /\ UNCHANGED <<calleeVars, num_samples, include_tables, generate_image, pools,
                   image_pairs, style_labels, font_labels, style_label_count,
                   i, is_same, attrs, content>>

(* ----------------------- lines 239-281: the draw ---------------------- *)

\* line 239: is_same = random.random() < 0.5
Flip ==
    /\ pc = "flip"
    /\ \E coin \in BOOLEAN : is_same' = coin
    /\ pc' = "branch"
    /\ UNCHANGED <<calleeVars, num_samples, include_tables, generate_image, pools,
                   image_pairs, style_labels, font_labels, style_label_count,
                   i, attrs, content, calls>>

\* mutant of AcceptsIdentical: the quota test is off by one
AcceptsIdenticalOffByOne ==
    is_same /\ style_label_count[1] <= target_per_class

\* the guards of lines 241 and 255
AcceptsIdentical == is_same /\ style_label_count[1] < target_per_class
AcceptsDiffering == ~is_same /\ style_label_count[0] < target_per_class

\* `x if random.random() < 0.5 else random.choice(pool)`: the outcomes
ReuseOrResample(x, pool) ==
    {IF reuse THEN x ELSE r : reuse \in BOOLEAN, r \in pool}

\* line 248: random.choice(logo_path) if has_logo_1 else None
LogoPath1Choices(has_logo_1) ==
    IF has_logo_1 THEN pools.logo_path ELSE {None}

\* line 269
LogoPath2Choices(logo_path_1, has_logo_2) ==
    IF has_logo_2
    THEN {IF logo_path_1 # None /\ reuse THEN logo_path_1 ELSE r :
             reuse \in BOOLEAN, r \in pools.logo_path}
    ELSE {None}

\* mutant of ChainedAssign: slide 2 draws its own value from the pool
IndependentChoice(x, pool) == pool

\* `x_1 = x_2 = value`: the values slide 2 can get when slide 1 got x
ChainedAssign(x, pool) == {x}

\* lines 243-254: one value per dimension, assigned to both slides
Identical ==
    /\ pc = "branch"
    /\ AcceptsIdentical
    /\ \E f1 \in pools.font_list, bg1 \in pools.background_colors,
          tc1 \in pools.text_colors, b1 \in pools.border,
          hl1 \in BOOLEAN, bul1 \in BOOLEAN, tab1 \in BOOLEAN,
          pos1 \in pools.logo_position,
          tb1 \in pools.table_borders, tbc1 \in pools.table_border_colors :
       \E f2 \in ChainedAssign(f1, pools.font_list),
          bg2 \in ChainedAssign(bg1, pools.background_colors),
          tc2 \in ChainedAssign(tc1, pools.text_colors),
          b2 \in ChainedAssign(b1, pools.border),
          hl2 \in ChainedAssign(hl1, BOOLEAN),
          pos2 \in ChainedAssign(pos1, pools.logo_position),
          bul2 \in ChainedAssign(bul1, BOOLEAN),
          tab2 \in ChainedAssign(tab1, BOOLEAN),
          tb2 \in ChainedAssign(tb1, pools.table_borders),
          tbc2 \in ChainedAssign(tbc1, pools.table_border_colors) :
       \E lp1 \in LogoPath1Choices(hl1) :
       \E lp2 \in ChainedAssign(lp1, LogoPath1Choices(hl2)) :
          attrs' = [style_label |-> 1,
                    font_1 |-> f1, font_2 |-> f2,
                    bg_color_1 |-> bg1, bg_color_2 |-> bg2,
                    text_color_1 |-> tc1, text_color_2 |-> tc2,
                    border_1 |-> b1, border_2 |-> b2,
                    has_logo_1 |-> hl1, has_logo_2 |-> hl2,
                    logo_path_1 |-> lp1, logo_path_2 |-> lp2,
                    logo_position1 |-> pos1, logo_position2 |-> pos2,
                    has_bullets_1 |-> bul1, has_bullets_2 |-> bul2,
                    has_table_1 |-> tab1, has_table_2 |-> tab2,
                    table_border_1 |-> tb1, table_border_2 |-> tb2,
                    table_border_color_1 |-> tbc1,
                    table_border_color_2 |-> tbc2]
    /\ pc' = "content"
    /\ UNCHANGED <<calleeVars, num_samples, include_tables, generate_image, pools,
                   image_pairs, style_labels, font_labels, style_label_count,
                   i, is_same, content, calls>>

\* lines 256-279: slide 1 sampled per dimension, slide 2 reusing slide 1's
\* value or resampling the pool, dimension by dimension
Differing ==
    /\ pc = "branch"
    /\ AcceptsDiffering
    /\ \E f1 \in pools.font_list, bg1 \in pools.background_colors,
          tc1 \in pools.text_colors, b1 \in pools.border,
          hl1 \in BOOLEAN, bul1 \in BOOLEAN, tab1 \in BOOLEAN,
          pos1 \in pools.logo_position, pos2 \in pools.logo_position,
          tb1 \in pools.table_borders, tbc1 \in pools.table_border_colors :
       \E f2 \in ReuseOrResample(f1, pools.font_list),
          bg2 \in ReuseOrResample(bg1, pools.background_colors),
          tc2 \in ReuseOrResample(tc1, pools.text_colors),
          b2 \in ReuseOrResample(b1, pools.border),
          hl2 \in ReuseOrResample(hl1, BOOLEAN),
          bul2 \in ReuseOrResample(bul1, BOOLEAN),
          tab2 \in ReuseOrResample(tab1, BOOLEAN),
          tb2 \in ReuseOrResample(tb1, pools.table_borders),
          tbc2 \in ReuseOrResample(tbc1, pools.table_border_colors) :
       \E lp1 \in LogoPath1Choices(hl1) :
       \E lp2 \in LogoPath2Choices(lp1, hl2) :
          attrs' = [style_label |-> 0,
                    font_1 |-> f1, font_2 |-> f2,
                    bg_color_1 |-> bg1, bg_color_2 |-> bg2,
                    text_color_1 |-> tc1, text_color_2 |-> tc2,
                    border_1 |-> b1, border_2 |-> b2,
                    has_logo_1 |-> hl1, has_logo_2 |-> hl2,
                    logo_path_1 |-> lp1, logo_path_2 |-> lp2,
                    logo_position1 |-> pos1, logo_position2 |-> pos2,
                    has_bullets_1 |-> bul1, has_bullets_2 |-> bul2,
                    has_table_1 |-> tab1, has_table_2 |-> tab2,
                    table_border_1 |-> tb1, table_border_2 |-> tb2,
                    table_border_color_1 |-> tbc1,
                    table_border_color_2 |-> tbc2]
    /\ pc' = "content"
    /\ UNCHANGED <<calleeVars, num_samples, include_tables, generate_image, pools,
                   image_pairs, style_labels, font_labels, style_label_count,
                   i, is_same, content, calls>>

\* mutant of Discard: the discarded draw uses up a file-name index
DiscardConsumesIndex ==
    /\ pc = "branch"
    /\ ~AcceptsIdentical
    /\ ~AcceptsDiffering
    /\ pc' = "while"
    /\ i' = i + 1
    /\ UNCHANGED <<calleeVars, num_samples, include_tables, generate_image, pools,
                   image_pairs, style_labels, font_labels, style_label_count,
                   is_same, attrs, content, calls>>

\* lines 280-281: else: continue
Discard ==
    /\ pc = "branch"
    /\ ~AcceptsIdentical
    /\ ~AcceptsDiffering
    /\ pc' = "while"
    /\ UNCHANGED <<calleeVars, num_samples, include_tables, generate_image, pools,
                   image_pairs, style_labels, font_labels, style_label_count,
                   i, is_same, attrs, content, calls>>

(* --------------- lines 294-306: the grid and the file names ----------- *)

\* Lines 283-292 draw the texts, the line spacing, the border switch and the
\* inline images of the pair.  Each is held in one local that both calls
\* receive (title, text1, text2, line_spacing, border, add_image,
\* add_image_2); no property stated here reads them and they are left out
\* of the state and of the call records.

\* mutant of NeedsTable: only slide 1's flag is consulted
NeedsTableFirstSlideOnly == include_tables /\ attrs.has_table_1

\* line 295
NeedsTable == include_tables /\ (attrs.has_table_1 \/ attrs.has_table_2)

\* lines 295-301: one grid per pair, or none
TableChoices ==
    IF NeedsTable
    THEN {generate_table_data(num_rows, num_cols) :
             num_rows \in table_min_rows..table_max_rows,
             num_cols \in table_min_cols..table_max_cols}
    ELSE {[headers |-> NoneList, data |-> NoneList]}

\* f"{dataset_directory}\\img{slide}_{i}.png"
ImgPath(slide, idx) == <<slide, idx>>

\* the index is not advanced: the next pair gets the same file names
PrepareTableAndPathsReusesIndex ==
    /\ pc = "content"
    /\ \E table \in TableChoices :
          content' = [table_headers |-> table.headers,
                      table_data |-> table.data,
                      img_1_path |-> ImgPath(1, i),
                      img_2_path |-> ImgPath(2, i)]
    /\ pc' = "render1"
    /\ UNCHANGED <<calleeVars, num_samples, include_tables, generate_image, pools,
                   image_pairs, style_labels, font_labels, style_label_count,
                   i, is_same, attrs, calls>>

\* lines 295-306
PrepareTableAndPaths ==
    /\ pc = "content"
    /\ \E table \in TableChoices :
          content' = [table_headers |-> table.headers,
                      table_data |-> table.data,
                      img_1_path |-> ImgPath(1, i),
                      img_2_path |-> ImgPath(2, i)]
    /\ i' = i + 1
    /\ pc' = "render1"
    /\ UNCHANGED <<calleeVars, num_samples, include_tables, generate_image, pools,
                   image_pairs, style_labels, font_labels, style_label_count,
                   is_same, attrs, calls>>

(* ------------------ lines 308-361: the two render calls --------------- *)

\* the font_size and title_font_size drawn inside one call
SizeChoices == FontSizeChoices \X TitleFontSizeChoices

\* the keyword arguments of the call for slide 1 (lines 308-334)
Call1Args(sizes) ==
    [font_path |-> attrs.font_1,
     img_background_color |-> attrs.bg_color_1,
     output_path |-> content.img_1_path,
     text_color |-> attrs.text_color_1,
     img_size |-> DEFAULT_IMG_SIZE,
     font_size |-> sizes[1],
     title_font_size |-> sizes[2],
     logo_size |-> DEFAULT_LOGO_SIZE,
     border_color |-> DEFAULT_BORDER_COLOR,
     border_width |-> attrs.border_1,
     logo_path |-> attrs.logo_path_1,
     logo_position |-> attrs.logo_position1,
     bullet |-> attrs.has_bullets_1,
     add_table |-> attrs.has_table_1,
     table_headers |-> content.table_headers,
     table_data |-> content.table_data,
     table_border |-> attrs.table_border_1,
     table_border_color |-> attrs.table_border_color_1]

\* the keyword arguments of the call for slide 2 (lines 335-361)
Call2Args(sizes) ==
    [font_path |-> attrs.font_2,
     img_background_color |-> attrs.bg_color_2,
     output_path |-> content.img_2_path,
     text_color |-> attrs.text_color_2,
     img_size |-> DEFAULT_IMG_SIZE,
     font_size |-> sizes[1],
     title_font_size |-> sizes[2],
     logo_size |-> DEFAULT_LOGO_SIZE,
     border_color |-> DEFAULT_BORDER_COLOR,
     border_width |-> attrs.border_2,
     logo_path |-> attrs.logo_path_2,
     logo_position |-> attrs.logo_position2,
     bullet |-> attrs.has_bullets_2,
     add_table |-> attrs.has_table_2,
     table_headers |-> content.table_headers,
     table_data |-> content.table_data,
     table_border |-> attrs.table_border_2,
     table_border_color |-> attrs.table_border_color_2]

Render1 ==
    /\ pc = "render1"
    /\ \E sizes \in SizeChoices : calls' = <<Call1Args(sizes)>>
    /\ pc' = "render2"
    /\ UNCHANGED <<calleeVars, num_samples, include_tables, generate_image, pools,
                   image_pairs, style_labels, font_labels, style_label_count,
                   i, is_same, attrs, content>>

Render2 ==
    /\ pc = "render2"
    /\ \E sizes \in SizeChoices : calls' = Append(calls, Call2Args(sizes))
    /\ pc' = "record"
    /\ UNCHANGED <<calleeVars, num_samples, include_tables, generate_image, pools,
                   image_pairs, style_labels, font_labels, style_label_count,
                   i, is_same, attrs, content>>

(* ------------------ lines 363-371: labels and counters ---------------- *)

\* mutant of FontLabel: the font is compared with itself
FontLabelSelfCompare(font_1, font_2) == IF font_1 = font_1 THEN 1 ELSE 0

\* line 363
FontLabel(font_1, font_2) == IF font_1 = font_2 THEN 1 ELSE 0

\* the style dimensions of two calls agree
StyleArgsEqual(c1, c2) ==
    /\ c1.font_path = c2.font_path
    /\ c1.img_background_color = c2.img_background_color
    /\ c1.text_color = c2.text_color
    /\ c1.border_width = c2.border_width
    /\ c1.logo_path = c2.logo_path
    /\ c1.logo_position = c2.logo_position
    /\ c1.bullet = c2.bullet
    /\ c1.add_table = c2.add_table
    /\ c1.table_border = c2.table_border
    /\ c1.table_border_color = c2.table_border_color

\* mutant of Record: a pair whose renders coincide in style is relabelled 1
RecordRelabelsCoinciding ==
    /\ pc = "record"
    /\ image_pairs' = Append(image_pairs,
                             <<content.img_1_path, content.img_2_path>>)
    /\ style_labels' =
          Append(style_labels,
                 IF StyleArgsEqual(calls[1], calls[2]) THEN 1
                 ELSE attrs.style_label)
    /\ font_labels' = Append(font_labels,
                             FontLabel(attrs.font_1, attrs.font_2))
    /\ style_label_count' =
          [style_label_count EXCEPT
              ![IF StyleArgsEqual(calls[1], calls[2]) THEN 1
                ELSE attrs.style_label] = @ + 1]
    /\ attrs' = NoAttrs
    /\ content' = NoContent
    /\ pc' = "while"
    /\ UNCHANGED <<calleeVars, num_samples, include_tables, generate_image, pools, i,
                   is_same, calls>>

\* the locals of the finished iteration are dead: every branch of the next
\* draw reassigns them before use
Record ==
    /\ pc = "record"
    /\ image_pairs' = Append(image_pairs,
                             <<content.img_1_path, content.img_2_path>>)
    /\ style_labels' = Append(style_labels, attrs.style_label)
    /\ font_labels' = Append(font_labels,
                             FontLabel(attrs.font_1, attrs.font_2))
    /\ style_label_count' =
          [style_label_count EXCEPT ![attrs.style_label] = @ + 1]
    /\ attrs' = NoAttrs
    /\ content' = NoContent
    /\ pc' = "while"
    /\ UNCHANGED <<calleeVars, num_samples, include_tables, generate_image, pools, i,
                   is_same, calls>>

Next ==
    \/ LookupGenerateImage
    \/ CheckGenerateImage
    \/ LoopTest
    \/ Flip
    \/ Identical
    \/ Differing
    \/ Discard
    \/ PrepareTableAndPaths
    \/ Render1
    \/ Render2
    \/ Record

Spec == Init /\ [][Next]_vars

\* The scenario of a dataset of four pairs drawn from degenerate pools.
InitDegenerate == Entry({4}, {TRUE}, {PoolConfig(None)})

SpecDegenerate == InitDegenerate /\ [][Next]_vars

\* The function runs to completion or for ever (it is the only thread), and
\* the coin of line 239 is fair: each outcome keeps occurring.
InitFair == Entry(0..MaxSamples, {TRUE}, {PoolConfig(None)})

FlipSame == Flip /\ is_same'
FlipDiffering == Flip /\ ~is_same'

FairSpec ==
    /\ InitFair
    /\ [][Next]_vars
    /\ WF_vars(Next)
    /\ SF_vars(FlipSame)
    /\ SF_vars(FlipDiffering)


(* ======================= properties of the sampler ===================== *)

Last(s) == s[Len(s)]

\* the pair whose two renders are in `calls` has been appended (lines 366-371)
PairRecorded == pc = "while" /\ Len(calls) = 2

\* every argument but output_path agrees
PixelArgsEqual(c1, c2) ==
    [c1 EXCEPT !.output_path = None] = [c2 EXCEPT !.output_path = None]

\* `if add_table and table_headers and table_data` (src/slide_generator.py
\* line 198, src/main.py line 250): the render draws a table
DrawsTable(c) ==
    c.add_table /\ Truthy(c.table_headers) /\ Truthy(c.table_data)

\* C1: once the loop is entered, create_balanced_dataset(N) returns style
\* labels with exactly N // 2 ones and exactly N - N // 2 zeros, for every
\* N >= 0, odd N included.
C1_BalancedLabelsReturned ==
    (pc = "while") ~>
        (/\ pc = "returned"
         /\ CountOf(style_labels, 1) = num_samples \div 2
         /\ CountOf(style_labels, 0) = num_samples - num_samples \div 2)

\* C2: with a generate_image function and a fair coin the loop terminates
\* and returns exactly N image pairs, N style labels and N font labels, for
\* every N >= 0, even or odd.
C2_TerminatesWithNPairs ==
    (pc = "while") ~>
        (/\ pc = "returned"
         /\ Len(image_pairs) = num_samples
         /\ Len(style_labels) = num_samples
         /\ Len(font_labels) = num_samples)

\* C3: in every reachable state both label counters are at most N // 2,
\* each counter equals the number of entries with its label in
\* style_labels, and the three result lists have equal length.
C3_QuotaInvariant ==
    /\ style_label_count[1] <= num_samples \div 2
    /\ style_label_count[0] <= num_samples \div 2
    /\ style_label_count[1] = CountOf(style_labels, 1)
    /\ style_label_count[0] = CountOf(style_labels, 0)
    /\ Len(image_pairs) = Len(style_labels)
    /\ Len(style_labels) = Len(font_labels)

\* both quotas filled by accepted pairs of both labels
C3_Witness ==
    /\ pc = "returned"
    /\ num_samples >= 2
    /\ style_label_count[1] = num_samples \div 2
    /\ style_label_count[0] = num_samples \div 2

\* the label the coin of this draw chose is already at its target
ChosenLabelFull ==
    style_label_count[IF is_same THEN 1 ELSE 0] >= num_samples \div 2

\* C4: a draw whose chosen label is already at the target N // 2 is
\* discarded with no effect: the result lists, both counters and the index
\* i are unchanged, generate_image is not called, and control is back at
\* the loop test.
C4_DiscardHasNoEffect ==
    [][(pc = "branch" /\ ChosenLabelFull) =>
          /\ pc' = "while"
          /\ UNCHANGED <<image_pairs, style_labels, font_labels,
                         style_label_count, i, calls>>]_vars

\* an identical draw was discarded after a pair had been accepted
C4_Witness ==
    /\ pc = "while"
    /\ calls = <<>>
    /\ is_same
    /\ Len(image_pairs) >= 1
    /\ style_label_count[1] = num_samples \div 2

\* C5: for every accepted pair with style label 1 the two generate_image
\* calls received equal values in every style dimension (font path,
\* background color, text color, border width, logo path or its absence,
\* logo position, bullet flag, table flag, table border width and color).
C5_IdenticalPairsAgree ==
    (PairRecorded /\ Last(style_labels) = 1) =>
        StyleArgsEqual(calls[1], calls[2])

\* an identical pair with a logo and a table flag, from a pool of two values
C5_Witness ==
    /\ PairRecorded
    /\ Last(style_labels) = 1
    /\ calls[1].logo_path # None
    /\ calls[1].add_table
    /\ calls[1].font_path = DefaultPools.font_list[2]

\* C6: for every accepted pair, whatever its style label, the recorded font
\* label is 1 exactly when the two renders received equal font paths.
C6_FontLabelIffSameFont ==
    PairRecorded =>
        (Last(font_labels) = 1 <=> calls[1].font_path = calls[2].font_path)

\* a style-label-0 pair with different fonts carries font label 0
C6_Witness ==
    /\ PairRecorded
    /\ Last(style_labels) = 0
    /\ calls[1].font_path # calls[2].font_path
    /\ Last(font_labels) = 0

\* C7: with N = 4 and degenerate pools the two renders of every pair with
\* style label 1 receive equal values for every argument except
\* output_path, font_size and title_font_size included.
C7_IdenticalPairsPixelIdentical ==
    (/\ num_samples = 4
     /\ Degenerate(pools)
     /\ PairRecorded
     /\ Last(style_labels) = 1) =>
        PixelArgsEqual(calls[1], calls[2])

C9_OneGridPerPair ==
    Len(calls) = 2 =>
        /\ ~calls[1].table_headers.none <=>
              (include_tables /\ (calls[1].add_table \/ calls[2].add_table))
        /\ calls[1].table_headers.none <=> calls[1].table_data.none
        /\ calls[1].table_headers = calls[2].table_headers
        /\ calls[1].table_data = calls[2].table_data
        /\ calls[1].table_headers.none =>
              (~DrawsTable(calls[1]) /\ ~DrawsTable(calls[2]))
        /\ \A k \in 1..2 : ~calls[k].add_table => ~DrawsTable(calls[k])

\* slide 1 draws the grid, slide 2 receives it and draws nothing
C9_Witness ==
    /\ Len(calls) = 2
    /\ include_tables
    /\ DrawsTable(calls[1])
    /\ ~calls[2].add_table
    /\ Truthy(calls[2].table_headers)

\* C10: without an image-generation function (none passed, none in the
\* module globals) the call fails before the first draw: the loop is never
\* entered, no coin is flipped, no pair is appended, no render is made and
\* nothing is returned.
C10_FailsFastWithoutRenderer ==
    (generate_image = None /\ pc # "start") =>
        /\ pc \in {"check", "raised"}
        /\ image_pairs = <<>>
        /\ style_labels = <<>>
        /\ font_labels = <<>>
        /\ calls = <<>>
        /\ i = 0

\* the NameError of line 229 has been raised
C10_Witness ==
    /\ pc = "raised"
    /\ generate_image = None

(***************************************************************************)
(* The text helpers of src/slide_generator.py.  A string is a sequence of  *)
(* characters.  The font is an input of the renderer: the one modelled     *)
(* here has a wide glyph, narrow glyphs, and no kerning, so that the       *)
(* measured width of a string is the sum of the advances of its glyphs.    *)
(***************************************************************************)

\* Bounds of the text inputs.
MaxTitleLen == 7
MaxTitleWidth == 6
MaxCellLen == 5

Chars == {"i", "W", " "}

Strings(n) == UNION {[1..k -> Chars] : k \in 0..n}

Ellipsis == <<".", ".", ".">>

\* the advance of one glyph
CharWidth(c) == IF c = "W" THEN 2 ELSE 1

\* draw.textbbox((0, 0), s, font=font): bbox[2] - bbox[0]
RECURSIVE text_width(_)
text_width(s) ==
    IF Len(s) = 0 THEN 0 ELSE CharWidth(Head(s)) + text_width(Tail(s))

\* s[:-1]
DropLast(s) == SubSeq(s, 1, Len(s) - 1)

\* str.split(): the maximal runs of non-blank characters
RECURSIVE SplitFrom(_, _, _)
SplitFrom(s, word, words) ==
    LET closed == IF Len(word) = 0 THEN words ELSE Append(words, word)
    IN  IF Len(s) = 0 THEN closed
        ELSE IF Head(s) = " " THEN SplitFrom(Tail(s), <<>>, closed)
        ELSE SplitFrom(Tail(s), Append(word, Head(s)), words)

split(s) == SplitFrom(s, <<>>, <<>>)

\* ' '.join(words)
RECURSIVE join(_)
join(words) ==
    IF Len(words) = 0 THEN <<>>
    ELSE IF Len(words) = 1 THEN words[1]
    ELSE words[1] \o <<" ">> \o join(Tail(words))

\* lines 19-29: the loop of wrap_text_by_words, and lines 31-32 at its end
RECURSIVE WrapWords(_, _, _, _)
WrapWords(words, current_line, lines, max_width) ==
    LET flushed == IF Len(current_line) > 0
                   THEN Append(lines, join(current_line))
                   ELSE lines
    IN  IF Len(words) = 0 THEN flushed
        ELSE LET word == Head(words)
                 test_line == join(Append(current_line, word))
             IN  IF text_width(test_line) <= max_width
                 THEN WrapWords(Tail(words), Append(current_line, word),
                                lines, max_width)
                 ELSE WrapWords(Tail(words), <<word>>, flushed, max_width)

\* all the words on one line, whatever its width
wrap_text_on_one_line(t, max_width) == <<join(split(t))>>

\* lines 11-34
wrap_text_by_words(t, max_width) ==
    LET lines == WrapWords(split(t), <<>>, <<>>, max_width)
    IN  IF Len(lines) > 0 THEN lines ELSE <<t>>

\* lines 137-146: the while loop with its else clause
RECURSIVE TruncateSecondLine(_, _)
TruncateSecondLine(truncated, max_title_width) ==
    IF Len(truncated) > 1
    THEN LET test_text == truncated \o Ellipsis
         IN  IF text_width(test_text) <= max_title_width
             THEN test_text
             ELSE TruncateSecondLine(DropLast(truncated), max_title_width)
    ELSE Ellipsis

\* lines 125-152: at most two rows
LimitTitleLines(title, title_lines, max_title_width) ==
    IF Len(title_lines) > 2
    THEN LET first_line == title_lines[1]
             second_line_text == join(Tail(title_lines))
             second_line ==
                 IF text_width(second_line_text) > max_title_width
                 THEN TruncateSecondLine(second_line_text, max_title_width)
                 ELSE second_line_text
         IN  <<first_line, second_line>>
    ELSE IF Len(title_lines) = 0 THEN <<title>>
    ELSE title_lines

\* create_balanced_dataset is not running.
SamplerNotCalled ==
    /\ pc = "not called"
    /\ num_samples = 0
    /\ include_tables = FALSE
    /\ generate_image = None
    /\ pools = PoolConfig(None)
    /\ image_pairs = <<>>
    /\ style_labels = <<>>
    /\ font_labels = <<>>
    /\ style_label_count = [l \in {0, 1} |-> 0]
    /\ i = 0
    /\ is_same = FALSE
    /\ attrs = NoAttrs
    /\ content = NoContent
    /\ calls = <<>>

(* ------------- lines 113-160: the title block of generate_image -------- *)

\* line 114 is passed: the title is not empty; max_title_width is the value
\* lines 115-120 compute from the canvas, the margin and the logo
TitleInit ==
    /\ SamplerNotCalled
    /\ render = NotCalled
    /\ llm = NotCalled
    /\ \E title \in Strings(MaxTitleLen) \ {<<>>},
          max_title_width \in 0..MaxTitleWidth :
            text = [pc |-> "wrap", title |-> title,
                    max_title_width |-> max_title_width,
                    title_lines |-> <<>>, drawn |-> <<>>]

\* line 122
WrapTitle ==
    /\ text.pc = "wrap"
    /\ text' = [text EXCEPT
           !.pc = "limit",
           !.title_lines = wrap_text_by_words(text.title,
                                              text.max_title_width)]
    /\ UNCHANGED <<samplerVars, render, llm>>

\* lines 125-152
LimitTitle ==
    /\ text.pc = "limit"
    /\ text' = [text EXCEPT
           !.pc = "draw",
           !.title_lines = LimitTitleLines(text.title, text.title_lines,
                                           text.max_title_width)]
    /\ UNCHANGED <<samplerVars, render, llm>>

\* lines 157-160: draw.text for each of title_lines[:2]
DrawTitle ==
    /\ text.pc = "draw"
    /\ text' = [text EXCEPT
           !.pc = "drawn",
           !.drawn = SubSeq(text.title_lines, 1,
                            IF Len(text.title_lines) < 2
                            THEN Len(text.title_lines) ELSE 2)]
    /\ UNCHANGED <<samplerVars, render, llm>>

TitleNext == WrapTitle \/ LimitTitle \/ DrawTitle

TitleSpec == TitleInit /\ [][TitleNext]_vars

EndsWithEllipsis(s) ==
    Len(s) >= 3 /\ SubSeq(s, Len(s) - 2, Len(s)) = Ellipsis

\* C11: at most two title lines are drawn, and whenever greedy word wrap
\* yields more than two lines the second drawn line ends with "..." and is
\* no wider than the available title width.
C11_TitleTwoLinesEllipsisFits ==
    text.pc = "drawn" =>
        /\ Len(text.drawn) <= 2
        /\ Len(wrap_text_by_words(text.title, text.max_title_width)) > 2 =>
              /\ Len(text.drawn) = 2
              /\ EndsWithEllipsis(text.drawn[2])
              /\ text_width(text.drawn[2]) <= text.max_title_width

(* ------------- lines 213-242: truncate_text of the table block --------- *)

MaxCellWidth == 8

\* lines 226-234: the while loop; ret tells whether it returned test_text
\* or left by the break of line 233 with the value of truncated
RECURSIVE TruncateLoop(_, _, _)
TruncateLoop(truncated, text_str, max_width) ==
    LET test_text == IF Len(truncated) < Len(text_str)
                     THEN truncated \o Ellipsis
                     ELSE truncated
    IN  IF text_width(test_text) <= max_width
        THEN [ret |-> TRUE, val |-> test_text]
        ELSE IF Len(truncated) <= 1
        THEN [ret |-> FALSE, val |-> truncated]
        ELSE TruncateLoop(DropLast(truncated), text_str, max_width)

truncate_text_unmeasured(text_str, max_width) ==
    IF Len(text_str) = 0 THEN <<>>
    ELSE IF text_width(text_str) <= max_width THEN text_str
    ELSE DropLast(text_str) \o Ellipsis

\* lines 214-242
truncate_text(text_str, max_width) ==
    IF Len(text_str) = 0 THEN <<>>
    ELSE IF text_width(text_str) <= max_width THEN text_str
    ELSE LET loop == TruncateLoop(text_str, text_str, max_width)
         IN  IF loop.ret THEN loop.val
             ELSE IF Len(loop.val) = 0 THEN <<>>
             ELSE IF text_width(<<loop.val[1]>>) <= max_width
             THEN <<loop.val[1]>>
             ELSE <<>>

TruncateInit ==
    /\ SamplerNotCalled
    /\ render = NotCalled
    /\ llm = NotCalled
    /\ \E text_str \in Strings(MaxCellLen), max_width \in 0..MaxCellWidth :
            text = [pc |-> "truncate", text_str |-> text_str,
                    max_width |-> max_width, result |-> <<>>]

\* one call truncate_text(text, max_width, font)
Truncate ==
    /\ text.pc = "truncate"
    /\ text' = [text EXCEPT
           !.pc = "returned",
           !.result = truncate_text(text.text_str, text.max_width)]
    /\ UNCHANGED <<samplerVars, render, llm>>

TruncateNext == Truncate

TruncateSpec == TruncateInit /\ [][TruncateNext]_vars

\* C13: truncate_text is idempotent at the same width, and its result is
\* the whole text, a proper prefix followed by "...", the first character
\* alone, or the empty string.
C13_TruncateIdempotent ==
    text.pc = "returned" =>
        /\ truncate_text(text.result, text.max_width) = text.result
        /\ \/ text.result = text.text_str
           \/ \E k \in 0..(Len(text.text_str) - 1) :
                 text.result = SubSeq(text.text_str, 1, k) \o Ellipsis
           \/ /\ Len(text.text_str) > 0
              /\ text.result = <<text.text_str[1]>>
           \/ text.result = <<>>

\* a text that did not fit was cut to a prefix and "..."
C13_Witness ==
    /\ text.pc = "returned"
    /\ text.result # text.text_str
    /\ Len(text.result) > 3
    /\ EndsWithEllipsis(text.result)
    /\ truncate_text(text.result, text.max_width) = text.result

(* ------------- lines 198-274: one cell of the table -------------------- *)

MaxCols == 4

\* canvas widths and border widths of the calls: the 224 px canvas of
\* src/main.py, the default canvas of the sampler, and a narrow canvas
ImgWidths == {48, 224, DEFAULT_IMG_SIZE[1]}
BorderWidths == {1, 3}

Min(a, b) == IF a < b THEN a ELSE b
Max(a, b) == IF a > b THEN a ELSE b

\* line 95
x_margin(border_width) == 10 + border_width * 2

\* line 200
table_width(img_width, border_width) ==
    Min(200, img_width - 2 * x_margin(border_width))

cell_width_rounded_up(width, num_cols) == (width + num_cols - 1) \div num_cols

\* line 204
cell_width(width, num_cols) == width \div num_cols

\* lines 249 and 268
max_text_width(width) == Max(5, width - 4)

\* A cell is the col_idx-th of a row of row_len cells (the header row has
\* num_cols cells) and holds cell_data.
CellInit ==
    /\ SamplerNotCalled
    /\ render = NotCalled
    /\ llm = NotCalled
    /\ \E cell_data \in Strings(MaxCellLen), img_width \in ImgWidths,
          border_width \in BorderWidths, num_cols \in 1..MaxCols,
          row_len \in 1..MaxCols :
         \E col_idx \in 0..(row_len - 1) :
            text = [pc |-> "table", cell_data |-> cell_data,
                    img_width |-> img_width, border_width |-> border_width,
                    num_cols |-> num_cols, row_len |-> row_len,
                    col_idx |-> col_idx, table_x |-> 0, table_width |-> 0,
                    cell_width |-> 0, cell_x |-> 0, cell_right |-> 0,
                    truncated |-> <<>>, text_x |-> 0, drawn |-> <<>>]

\* lines 198-204
TableLayout ==
    /\ text.pc = "table"
    /\ LET width == table_width(text.img_width, text.border_width)
       IN  text' = [text EXCEPT
               !.pc = "cell",
               !.table_x = x_margin(text.border_width),
               !.table_width = width,
               !.cell_width = cell_width(width, text.num_cols)]
    /\ UNCHANGED <<samplerVars, render, llm>>

\* lines 246-248 and 265-267: the rectangle of the cell
CellRectangle ==
    /\ text.pc = "cell"
    /\ LET cell_x == text.table_x + text.col_idx * text.cell_width
       IN  text' = [text EXCEPT
               !.pc = "cell text",
               !.cell_x = cell_x,
               !.cell_right = cell_x + text.cell_width]
    /\ UNCHANGED <<samplerVars, render, llm>>

\* lines 249-250 and 268-269
TruncateCell ==
    /\ text.pc = "cell text"
    /\ text' = [text EXCEPT
           !.pc = "cell draw",
           !.truncated = truncate_text(text.cell_data,
                                       max_text_width(text.cell_width))]
    /\ UNCHANGED <<samplerVars, render, llm>>

\* lines 255-256 and 274-275
DrawCell ==
    /\ text.pc = "cell draw"
    /\ text' = [text EXCEPT
           !.pc = "cell drawn",
           !.text_x = text.cell_x + 2,
           !.drawn = text.truncated]
    /\ UNCHANGED <<samplerVars, render, llm>>

CellNext == TableLayout \/ CellRectangle \/ TruncateCell \/ DrawCell

CellSpec == CellInit /\ [][CellNext]_vars

C16_CellsInsideTable ==
    (text.pc \in {"cell text", "cell draw", "cell drawn"}
        /\ text.row_len = text.num_cols) =>
        /\ text.cell_right <= text.table_x + text.table_width
        /\ text.img_width = 224 =>
              text.cell_right <= 200 + x_margin(text.border_width)

\* the last cell of a row of three on the 224 px canvas
C16_Witness ==
    /\ text.pc = "cell drawn"
    /\ text.img_width = 224
    /\ text.num_cols = 3
    /\ text.row_len = 3
    /\ text.col_idx = 2
    /\ text.cell_right > text.table_x

(***************************************************************************)
(* One call of generate_image of src/slide_generator.py, as the layout it  *)
(* computes: the cursor y_position, the recorded content areas, and what   *)
(* is pasted or outlined.  The assets are inputs: the font file loads or   *)
(* raises, an image file is missing, unreadable or good.  The title enters *)
(* with the number of lines the title block draws (title_lines[:2]).       *)
(***************************************************************************)

cell_height == 18
min_readable_img_size == 30

\* img_size and logo_size of src/main.py, and the defaults of the sampler
Canvases == {[img_size |-> <<224, 224>>, logo_size |-> <<40, 40>>],
             [img_size |-> DEFAULT_IMG_SIZE, logo_size |-> DEFAULT_LOGO_SIZE]}

\* font_size and title_font_size of a call (lines 314-315 of the sampler)
RenderSizes == {<<16, 32>>, <<20, 40>>}
LineSpacings == {1, 2}

\* A file argument: None, the path of a missing file, of a file that
\* exists and makes Image.open or resize raise, or of a good file.
FileStates == {"None", "missing", "unreadable", "ok"}
Exists(file) == file \in {"unreadable", "ok"}

LogoPositions == {"top-left", "top-right", "bottom-left", "bottom-right"}

\* logo_path is None, or set with one of the four positions, or set with
\* a position generate_image does not know
LogoConfigs ==
    {[path |-> "None", position |-> "top-left"],
     [path |-> "ok", position |-> "center"]}
    \cup [path : FileStates \ {"None"}, position : LogoPositions]

\* The exceptions of the model, all subclasses of Exception: a file that
\* does not load, a package that is not installed, a request that fails.
ExceptionSubclasses == {"OSError", "ImportError", "APIError"}

\* An except clause catches an exception: a bare except catches everything,
\* except Exception every subclass of Exception, except E the class E.
CatchesNothing(clause, exc) == FALSE

Catches(clause, exc) ==
    \/ clause = "bare"
    \/ clause = "Exception" /\ exc \in ExceptionSubclasses
    \/ clause = exc

RenderInit ==
    /\ SamplerNotCalled
    /\ text = NotCalled
    /\ llm = NotCalled
    /\ \E canvas \in Canvases, border_width \in BorderWidths,
          sizes \in RenderSizes, line_spacing \in LineSpacings,
          font_ok \in BOOLEAN, logo \in LogoConfigs,
          title_rows \in 0..2, text1 \in BOOLEAN, text2 \in BOOLEAN,
          num_rows \in 0..MaxTableRows,
          add_image \in FileStates, add_image_2 \in FileStates :
            render = [pc |-> "fonts",
                      img_size |-> canvas.img_size,
                      logo_size |-> canvas.logo_size,
                      border_width |-> border_width,
                      font_size |-> sizes[1],
                      title_font_size |-> sizes[2],
                      line_spacing |-> line_spacing,
                      font_ok |-> font_ok,
                      logo |-> logo,
                      title_rows |-> title_rows,
                      text1 |-> text1, text2 |-> text2,
                      num_rows |-> num_rows,
                      add_image |-> add_image,
                      add_image_2 |-> add_image_2,
                      fonts |-> [title |-> "unset", text |-> "unset",
                                 small |-> "unset"],
                      y_position |-> 0,
                      content_areas |-> <<>>,
                      slots |-> {},
                      drawn |-> {}]

RenderFrame == UNCHANGED <<samplerVars, text, llm>>

\* lines 80-91
LoadFonts ==
    /\ render.pc = "fonts"
    /\ render' =
         IF render.font_ok
         THEN [render EXCEPT !.pc = "cursor",
                  !.fonts = [title |-> "truetype", text |-> "truetype",
                             small |-> "truetype"]]
         ELSE IF Catches("Exception", "OSError")
         THEN [render EXCEPT !.pc = "cursor",
                  !.fonts = [title |-> "default", text |-> "default",
                             small |-> "default"]]
         ELSE [render EXCEPT !.pc = "raised"]
    /\ RenderFrame

\* lines 102 and 284: the logo is configured at one of positions and exists
LogoAt(positions) ==
    /\ render.logo.path # "None"
    /\ render.logo.position \in positions
    /\ Exists(render.logo.path)

first_y_position_under_logo(base_y_position, logo_bottom, top_logo) ==
    base_y_position

\* lines 102-111: the first value of y_position
first_y_position(base_y_position, logo_bottom, top_logo) ==
    IF top_logo THEN Max(base_y_position, logo_bottom + 3)
    ELSE base_y_position

\* lines 94-111
InitCursor ==
    /\ render.pc = "cursor"
    /\ LET base_y_position == 15 + render.border_width * 2
           logo_bottom == 5 + render.logo_size[2]
       IN  render' = [render EXCEPT
               !.pc = "title",
               !.y_position =
                   first_y_position(base_y_position, logo_bottom,
                                    LogoAt({"top-left", "top-right"}))]
    /\ RenderFrame

ContentWidth == render.img_size[1] - 2 * x_margin(render.border_width)

\* lines 114-173
DrawTitleBlock ==
    /\ render.pc = "title"
    /\ IF render.title_rows > 0
       THEN LET title_start_y == render.y_position
                title_end_y == title_start_y + render.title_rows *
                    (render.title_font_size + render.line_spacing * 2)
                line_y == title_end_y + render.line_spacing * 2 + 2
            IN  render' = [render EXCEPT
                    !.pc = "body",
                    !.y_position = line_y + 4,
                    !.content_areas = Append(@,
                        <<x_margin(render.border_width), title_start_y,
                          ContentWidth, title_end_y - title_start_y>>)]
       ELSE render' = [render EXCEPT !.pc = "body"]
    /\ RenderFrame

\* the cursor moves by the spacing only
line_advance_without_font(font_size, line_spacing) == line_spacing * 3

\* lines 182 and 192: y_position += font_size + line_spacing * 3
line_advance(font_size, line_spacing) == font_size + line_spacing * 3

\* lines 176-195
DrawBody ==
    /\ render.pc = "body"
    /\ LET step == line_advance(render.font_size, render.line_spacing)
           text1_y == render.y_position
           text2_y == IF render.text1 THEN text1_y + step ELSE text1_y
           area(y) == <<x_margin(render.border_width), y, ContentWidth,
                        render.font_size>>
           areas1 == IF render.text1
                     THEN Append(render.content_areas, area(text1_y))
                     ELSE render.content_areas
           areas2 == IF render.text2 THEN Append(areas1, area(text2_y))
                     ELSE areas1
       IN  render' = [render EXCEPT
               !.pc = "table",
               !.y_position = (IF render.text2 THEN text2_y + step
                               ELSE text2_y) + 4,
               !.content_areas = areas2]
    /\ RenderFrame

\* lines 198-279: num_rows = 0 stands for a call without a table to draw
DrawTable ==
    /\ render.pc = "table"
    /\ IF render.num_rows > 0
       THEN LET table_height == (render.num_rows + 1) * cell_height
            IN  render' = [render EXCEPT
                    !.pc = "images",
                    !.y_position = @ + table_height + 4,
                    !.content_areas = Append(@,
                        <<x_margin(render.border_width), render.y_position,
                          table_width(render.img_size[1],
                                      render.border_width),
                          table_height>>)]
       ELSE render' = [render EXCEPT !.pc = "images"]
    /\ RenderFrame

\* lines 306-313, 338-345 and 358-365: one inline image at its slot; a
\* missing file draws nothing, a failed open or resize goes to the except
SlotRaises(file) == file = "unreadable" /\ ~Catches("bare", "OSError")

SlotDrawn(file, rect) ==
    IF ~Exists(file) THEN {}
    ELSE IF file = "ok" THEN {[what |-> "image", rect |-> rect]}
    ELSE {[what |-> "placeholder", rect |-> rect]}

\* the room of a bottom logo is not taken off
image_height_over_logo(img_height, y, logo_height, bottom_logo) ==
    img_height - y - 5

\* lines 283-286: available_height
image_height_left(img_height, y, logo_height, bottom_logo) ==
    IF bottom_logo THEN img_height - y - logo_height - 8
    ELSE img_height - y - 5

\* lines 282-369
DrawInlineImages ==
    /\ render.pc = "images"
    /\ LET y == render.y_position
           x == x_margin(render.border_width)
           available_height ==
               image_height_left(render.img_size[2], y, render.logo_size[2],
                                 LogoAt({"bottom-left", "bottom-right"}))
           available_width == ContentWidth
           img_spacing == 4
           two == render.add_image # "None" /\ render.add_image_2 # "None"
           one == IF render.add_image # "None" THEN render.add_image
                  ELSE render.add_image_2
           single_img_width ==
               IF two THEN (available_width - img_spacing) \div 2
               ELSE Min(available_width, available_height)
           single_img_height ==
               IF two THEN Min(available_height, single_img_width)
               ELSE single_img_width
           rect1 == <<x, y, single_img_width, single_img_height>>
           rect2 == <<x + single_img_width + img_spacing, y,
                      single_img_width, single_img_height>>
           slots ==
               IF available_height < min_readable_img_size
                  \/ single_img_width < min_readable_img_size
                  \/ single_img_height < min_readable_img_size
               THEN <<>>
               ELSE IF two
               THEN <<[file |-> render.add_image, rect |-> rect1],
                      [file |-> render.add_image_2, rect |-> rect2]>>
               ELSE IF one # "None"
               THEN <<[file |-> one, rect |-> rect1]>>
               ELSE <<>>
           Slots == {slots[k] : k \in 1..Len(slots)}
       IN  IF \E slot \in Slots : SlotRaises(slot.file)
           THEN render' = [render EXCEPT !.pc = "raised"]
           ELSE render' = [render EXCEPT
                    !.pc = "logo",
                    !.slots = Slots,
                    !.drawn = @ \cup UNION {SlotDrawn(slot.file, slot.rect) :
                                            slot \in Slots},
                    !.content_areas =
                        @ \o [k \in 1..Len(slots) |-> slots[k].rect]]
    /\ RenderFrame

logo_overlaps_first_area(logo_x, logo_y, logo_w, logo_h, content_areas) ==
    /\ Len(content_areas) > 0
    /\ LET area == content_areas[1]
       IN  ~(\/ logo_x + logo_w <= area[1]
             \/ logo_x >= area[1] + area[3]
             \/ logo_y + logo_h <= area[2]
             \/ logo_y >= area[2] + area[4])

\* lines 373-386
logo_overlaps_content(logo_x, logo_y, logo_w, logo_h, content_areas) ==
    LET logo_right == logo_x + logo_w
        logo_bottom == logo_y + logo_h
    IN  \E k \in 1..Len(content_areas) :
            LET cx == content_areas[k][1]
                cy == content_areas[k][2]
                content_right == cx + content_areas[k][3]
                content_bottom == cy + content_areas[k][4]
            IN  ~(\/ logo_right <= cx
                  \/ logo_x >= content_right
                  \/ logo_bottom <= cy
                  \/ logo_y >= content_bottom)

logo_positions_all_top_left(position, img_size, logo_size) == <<5, 5>>

\* lines 390-395
logo_positions(position, img_size, logo_size) ==
    CASE position = "top-left" -> <<5, 5>>
      [] position = "top-right" -> <<img_size[1] - logo_size[1] - 5, 5>>
      [] position = "bottom-left" -> <<5, img_size[2] - logo_size[2] - 5>>
      [] position = "bottom-right" ->
             <<img_size[1] - logo_size[1] - 5,
               img_size[2] - logo_size[2] - 5>>

\* the rectangle the logo of this call is pasted at
LogoRect ==
    LET logo_pos == logo_positions(render.logo.position, render.img_size,
                                   render.logo_size)
    IN  <<logo_pos[1], logo_pos[2], render.logo_size[1], render.logo_size[2]>>

\* lines 397-409
DrawLogo ==
    /\ render.pc = "logo"
    /\ IF LogoAt(LogoPositions)
          /\ ~logo_overlaps_content(LogoRect[1], LogoRect[2], LogoRect[3],
                                    LogoRect[4], render.content_areas)
       THEN IF render.logo.path = "ok"
            THEN render' = [render EXCEPT
                     !.pc = "save",
                     !.drawn = @ \cup {[what |-> "logo", rect |-> LogoRect]}]
            ELSE IF Catches("Exception", "OSError")
            THEN render' = [render EXCEPT !.pc = "save"]
            ELSE render' = [render EXCEPT !.pc = "raised"]
       ELSE render' = [render EXCEPT !.pc = "save"]
    /\ RenderFrame

\* lines 412-413
Save ==
    /\ render.pc = "save"
    /\ render' = [render EXCEPT !.pc = "saved"]
    /\ RenderFrame

RenderNext ==
    \/ LoadFonts
    \/ InitCursor
    \/ DrawTitleBlock
    \/ DrawBody
    \/ DrawTable
    \/ DrawInlineImages
    \/ DrawLogo
    \/ Save

RenderSpec == RenderInit /\ [][RenderNext]_vars

\* Two rectangles (x, y, width, height) have a point of positive area in
\* common.
Overlap(r1, r2) ==
    /\ Max(r1[1], r2[1]) < Min(r1[1] + r1[3], r2[1] + r2[3])
    /\ Max(r1[2], r2[2]) < Min(r1[2] + r1[4], r2[2] + r2[4])

ContentAreas == {render.content_areas[k] : k \in 1..Len(render.content_areas)}

LogoDrawn == \E op \in render.drawn : op.what = "logo"

AfterLogo == render.pc \in {"save", "saved"}

\* C14: a pasted logo overlaps none of the recorded content regions; a logo
\* whose rectangle overlaps a recorded region is not drawn.
C14_DrawnLogoOverlapsNothing ==
    AfterLogo =>
        \A op \in render.drawn : op.what = "logo" =>
            /\ op.rect = LogoRect
            /\ \A area \in ContentAreas : ~Overlap(op.rect, area)

\* a loadable bottom logo left out because a later region reaches it
C14_Witness ==
    /\ render.pc = "saved"
    /\ render.logo.path = "ok"
    /\ render.logo.position \in {"bottom-left", "bottom-right"}
    /\ Len(render.content_areas) >= 2
    /\ ~Overlap(LogoRect, render.content_areas[1])
    /\ \E area \in ContentAreas : Overlap(LogoRect, area)
    /\ ~LogoDrawn

\* the fixed corner offsets of a logo of size logo_size on a canvas img_size
CornerOffset(position, img_size, logo_size) ==
    <<IF position \in {"top-left", "bottom-left"} THEN 5
      ELSE img_size[1] - logo_size[1] - 5,
      IF position \in {"top-left", "top-right"} THEN 5
      ELSE img_size[2] - logo_size[2] - 5>>

NoContentInputs ==
    /\ render.title_rows = 0
    /\ ~render.text1
    /\ ~render.text2
    /\ render.num_rows = 0
    /\ render.add_image = "None"
    /\ render.add_image_2 = "None"

\* C15: without title, body, table and inline image, a configured logo
\* (path set, one of the four corners, file present and loadable) is drawn
\* at the fixed offset of its corner.
C15_LoneLogoDrawnAtCorner ==
    (AfterLogo /\ NoContentInputs /\ render.logo.path = "ok"
        /\ render.logo.position \in LogoPositions) =>
        LET corner == CornerOffset(render.logo.position, render.img_size,
                                   render.logo_size)
        IN  [what |-> "logo",
             rect |-> <<corner[1], corner[2], render.logo_size[1],
                        render.logo_size[2]>>] \in render.drawn

C15_Witness ==
    /\ render.pc = "saved"
    /\ NoContentInputs
    /\ render.logo.path = "ok"
    /\ render.logo.position = "bottom-right"
    /\ render.img_size = <<224, 224>>
    /\ [what |-> "logo", rect |-> <<179, 179, 40, 40>>] \in render.drawn

DefaultFonts == [title |-> "default", text |-> "default", small |-> "default"]

\* the positions of generate_image from which the next block runs, and
\* the end after the save
RenderPositions == {"fonts", "cursor", "title", "body", "table", "images",
                    "logo", "save", "saved"}

\* C17: no asset failure (font that does not load, inline image or logo
\* that is missing or unreadable) ends generate_image in an error: no step
\* raises, the render is always at a block on the way to the save or
\* saved, and after a font load failure the title, body and table fonts
\* are all the default font.
C17_AssetFailuresNeverRaise ==
    /\ render.pc # "raised"
    /\ render.pc \in RenderPositions \cup {"not called"}
    /\ (~render.font_ok /\ render.pc \notin {"fonts", "not called"}) =>
           render.fonts = DefaultFonts

\* a saved render whose font, two inline images and logo all failed
C17_Witness ==
    /\ render.pc = "saved"
    /\ ~render.font_ok
    /\ render.fonts = DefaultFonts
    /\ render.add_image = "missing"
    /\ render.add_image_2 = "unreadable"
    /\ render.logo.path = "unreadable"
    /\ render.slots # {}
    /\ render.title_rows > 0
    /\ render.num_rows > 0

\* C18: every inline image slot that is populated and laid out and whose
\* image cannot be loaded (file missing, or open or resize fails) gets an
\* outlined placeholder rectangle at the rectangle of the slot.
C18_PlaceholderForUnloadableImage ==
    render.pc \in {"logo", "save", "saved"} =>
        \A slot \in render.slots :
            slot.file \in {"missing", "unreadable"} =>
                [what |-> "placeholder", rect |-> slot.rect] \in render.drawn

TopLogo == LogoAt({"top-left", "top-right"})

\* C19: with an existing logo at top-left or top-right the cursor starts
\* at or below the logo's bottom plus 3, every recorded content region
\* lies below the logo rectangle, and the logo is never left out for
\* overlapping content.
C19_ContentBelowTopLogo ==
    (TopLogo /\ render.pc \notin {"fonts", "cursor", "not called"}) =>
        /\ render.y_position >= LogoRect[2] + LogoRect[4] + 3
        /\ \A area \in ContentAreas : area[2] >= LogoRect[2] + LogoRect[4]
        /\ \A area \in ContentAreas : ~Overlap(LogoRect, area)
        /\ (AfterLogo /\ render.logo.path = "ok") =>
               [what |-> "logo", rect |-> LogoRect] \in render.drawn

\* a top-right logo drawn beside a two-line title, body and table
C19_Witness ==
    /\ render.pc = "saved"
    /\ render.logo = [path |-> "ok", position |-> "top-right"]
    /\ render.title_rows = 2
    /\ render.text1
    /\ render.num_rows > 0
    /\ Len(render.content_areas) >= 3
    /\ LogoDrawn

(***************************************************************************)
(* One call of generate_title, generate_bullet_point or                    *)
(* generate_table_headers of LLMTextGenerator (src/llm_text_generator.py). *)
(* The provider is an input: its package is installed or not, the key is   *)
(* set or not, the request returns a reply, fails with a status, or        *)
(* raises.  A reply is a sequence of characters; an entry of a fallback    *)
(* pool is a string of one glyph, the entry itself.                        *)
(***************************************************************************)

MaxReplyLen == 3
MaxHeaderCols == 6

\* the characters of a reply the cleaning code tells apart
ReplyChars == {"a", " ", "'", ",", "-"}

Replies == UNION {[1..k -> ReplyChars] : k \in 0..MaxReplyLen}

\* str.lstrip(chars), str.rstrip(chars), str.strip(chars)
RECURSIVE lstrip(_, _)
lstrip(s, chars) ==
    IF Len(s) > 0 /\ Head(s) \in chars THEN lstrip(Tail(s), chars) ELSE s

RECURSIVE rstrip(_, _)
rstrip(s, chars) ==
    IF Len(s) > 0 /\ s[Len(s)] \in chars THEN rstrip(DropLast(s), chars)
    ELSE s

strip(s, chars) == rstrip(lstrip(s, chars), chars)

Whitespace == {" ", "\n"}

\* s[:n]
Take(s, n) == SubSeq(s, 1, Min(n, Len(s)))

\* lines 36-62
fallback_titles ==
    {<<"Market Analysis Q4 2024">>, <<"Revenue Growth Strategy">>,
     <<"Customer Engagement Metrics">>, <<"Product Development Roadmap">>,
     <<"Team Performance Overview">>, <<"Annual Budget Forecast">>,
     <<"Digital Transformation">>, <<"Competitive Market Position">>,
     <<"Innovation and Research">>, <<"Sustainability Goals 2025">>}

fallback_bullets ==
    {<<"Increased revenue by 25% this quarter">>,
     <<"Improved customer satisfaction scores">>,
     <<"Launched three new product features">>,
     <<"Expanded market presence in Europe">>,
     <<"Reduced operational costs by 15%">>}

fallback_table_headers ==
    {<< <<"Product">>, <<"Sales">>, <<"Revenue">>, <<"Growth">> >>,
     << <<"Region">>, <<"Q1">>, <<"Q2">>, <<"Q3">>, <<"Q4">> >>,
     << <<"Team">>, <<"Target">>, <<"Actual">>, <<"Status">> >>,
     << <<"Category">>, <<"Units">>, <<"Price">>, <<"Total">> >>}

\* what a provider call gives back: a string, None, or an exception
Returns(t) == [raised |-> FALSE, none |-> FALSE, text |-> t]
ReturnsNone == [raised |-> FALSE, none |-> TRUE, text |-> <<>>]
Raises == [raised |-> TRUE, none |-> TRUE, text |-> <<>>]

\* the exception exc raised inside a try whose handlers return None
HandledBy(clauses, exc) ==
    IF \E clause \in clauses : Catches(clause, exc) THEN ReturnsNone
    ELSE Raises

RequestOutcomes == {"text", "http error", "exception", "retried text",
                    "retried error"}

\* lines 64-263 without vision: the import, the key, the request and,
\* after a parameter error, the request tried again
call_openai(package, api_key, request, reply) ==
    IF ~package THEN HandledBy({"ImportError", "Exception"}, "ImportError")
    ELSE IF ~api_key THEN ReturnsNone
    ELSE IF request \in {"text", "retried text"}
    THEN Returns(strip(reply, Whitespace))
    ELSE HandledBy({"ImportError", "Exception"}, "APIError")

\* lines 265-294
call_ollama(package, request, reply) ==
    IF ~package THEN HandledBy({"ImportError", "Exception"}, "ImportError")
    ELSE IF request = "text" THEN Returns(strip(reply, Whitespace))
    ELSE IF request = "http error" THEN ReturnsNone
    ELSE HandledBy({"ImportError", "Exception"}, "OSError")

Methods == {"generate_title", "generate_bullet_point",
            "generate_table_headers"}
Providers == {"openai", "deepseek", "ollama", "unknown"}

\* lines 323-325: the cleaning of a title
clean_title(result) ==
    Take(strip(strip(strip(result, Whitespace), {"\""}), {"'"}), 100)

\* lines 359-363: the cleaning of a bullet point
clean_bullet(result) ==
    LET unquoted == strip(strip(strip(result, Whitespace), {"\""}), {"'"})
        unmarked == lstrip(lstrip(lstrip(unquoted, {"bullet"}), {"-"}), {"*"})
    IN  Take(strip(unmarked, Whitespace), 150)

\* result.replace(",", "\n").split("\n")
RECURSIVE SplitLines(_, _, _)
SplitLines(s, piece, pieces) ==
    IF Len(s) = 0 THEN Append(pieces, piece)
    ELSE IF Head(s) \in {",", "\n"}
    THEN SplitLines(Tail(s), <<>>, Append(pieces, piece))
    ELSE SplitLines(Tail(s), Append(piece, Head(s)), pieces)

\* line 403: the stripped lines that are not blank
RECURSIVE StrippedLines(_)
StrippedLines(pieces) ==
    IF Len(pieces) = 0 THEN <<>>
    ELSE LET line == strip(Head(pieces), Whitespace)
         IN  IF Len(line) > 0 THEN <<line>> \o StrippedLines(Tail(pieces))
             ELSE StrippedLines(Tail(pieces))

HeaderPrefixChars == {"0", "1", "2", "3", "4", "5", "6", "7", "8", "9",
                      ".", "-", ")", " "}

\* lines 405-412: the loop over the lines
RECURSIVE CollectHeaders(_, _, _)
CollectHeaders(lines, headers, num_cols) ==
    IF Len(lines) = 0 THEN headers
    ELSE LET cleaned == strip(lstrip(Head(lines), HeaderPrefixChars),
                              Whitespace)
             added == IF Len(cleaned) > 0 /\ Len(cleaned) < 30
                      THEN Append(headers, cleaned)
                      ELSE headers
         IN  IF Len(added) >= num_cols THEN added
             ELSE CollectHeaders(Tail(lines), added, num_cols)

\* lines 403-412
parse_headers(result, num_cols) ==
    CollectHeaders(StrippedLines(SplitLines(result, <<>>, <<>>)), <<>>,
                   num_cols)

\* the value a method makes of the string the provider returned
Cleaned(method, result, num_cols) ==
    CASE method = "generate_title" -> clean_title(result)
      [] method = "generate_bullet_point" -> clean_bullet(result)
      [] method = "generate_table_headers" -> parse_headers(result, num_cols)

ReturnsAnyReply(method, result, num_cols) == ~result.none

\* the headers found are returned without the count of line 414
ReturnsHeadersFound(method, result, num_cols) ==
    ~result.none /\ Len(result.text) > 0

\* lines 321-327, 357-365, 401-415: the method returns the cleaned value
ReturnsCleaned(method, result, num_cols) ==
    /\ ~result.none
    /\ Len(result.text) > 0
    /\ IF method = "generate_table_headers"
       THEN Len(parse_headers(result.text, num_cols)) = num_cols
       ELSE Len(Cleaned(method, result.text, num_cols)) > 0

\* lines 382-387 and 418-423: the values the header fallback can return
fallback_headers(num_cols) ==
    LET suitable_pools == {pool \in fallback_table_headers :
                              Len(pool) >= num_cols}
    IN  IF suitable_pools # {}
        THEN {Take(selected_pool, num_cols) : selected_pool \in suitable_pools}
        ELSE {[k \in 1..num_cols |-> <<"Column ", ToString(k)>>]}

\* lines 307, 330, 343, 368, 382-387, 418-423
Fallback(method, num_cols) ==
    CASE method = "generate_title" -> fallback_titles
      [] method = "generate_bullet_point" -> fallback_bullets
      [] method = "generate_table_headers" -> fallback_headers(num_cols)

\* The arguments and the generator of a call, and what the provider will
\* do.  Only generate_table_headers has num_cols.
LLMInit ==
    /\ SamplerNotCalled
    /\ text = NotCalled
    /\ render = NotCalled
    /\ \E method \in Methods, provider \in Providers, enabled \in BOOLEAN,
          package \in BOOLEAN, api_key \in BOOLEAN,
          request \in RequestOutcomes, reply \in Replies :
         \E num_cols \in IF method = "generate_table_headers"
                         THEN 0..MaxHeaderCols ELSE {0} :
            /\ request \notin {"text", "retried text"} => reply = <<>>
            /\ llm = [pc |-> "enter", method |-> method,
                      provider |-> provider, enabled |-> enabled,
                      num_cols |-> num_cols, package |-> package,
                      api_key |-> api_key, request |-> request,
                      reply |-> reply, result |-> ReturnsNone,
                      returned |-> <<>>]

LLMFrame == UNCHANGED <<samplerVars, text, render>>

\* lines 306-307, 342-343, 381-387: a disabled generator answers from the
\* fallback at once
ReturnDisabled ==
    /\ llm.pc = "enter"
    /\ ~llm.enabled
    /\ \E value \in Fallback(llm.method, llm.num_cols) :
           llm' = [llm EXCEPT !.pc = "returned", !.returned = value]
    /\ LLMFrame

\* lines 314-319, 350-355, 394-399: the call of the provider
CallProvider ==
    /\ llm.pc = "enter"
    /\ llm.enabled
    /\ LET result ==
               IF llm.provider \in {"openai", "deepseek"}
               THEN call_openai(llm.package, llm.api_key, llm.request,
                                llm.reply)
               ELSE IF llm.provider = "ollama"
               THEN call_ollama(llm.package, llm.request, llm.reply)
               ELSE ReturnsNone
       IN  llm' = [llm EXCEPT
               !.pc = IF result.raised THEN "raised" ELSE "result",
               !.result = result]
    /\ LLMFrame

\* lines 321-327, 357-365, 401-415: the cleaned reply is returned
ReturnCleaned ==
    /\ llm.pc = "result"
    /\ ReturnsCleaned(llm.method, llm.result, llm.num_cols)
    /\ llm' = [llm EXCEPT
           !.pc = "returned",
           !.returned = Cleaned(llm.method, llm.result.text, llm.num_cols)]
    /\ LLMFrame

\* lines 330, 368, 418-423: the fallback
ReturnFallback ==
    /\ llm.pc = "result"
    /\ ~ReturnsCleaned(llm.method, llm.result, llm.num_cols)
    /\ \E value \in Fallback(llm.method, llm.num_cols) :
           llm' = [llm EXCEPT !.pc = "returned", !.returned = value]
    /\ LLMFrame

LLMNext == ReturnDisabled \/ CallProvider \/ ReturnCleaned \/ ReturnFallback

LLMSpec == LLMInit /\ [][LLMNext]_vars

\* value is an entry of the hardcoded pool of the method; for headers, the
\* first entries of one of the hardcoded header lists
PoolValue(method, value) ==
    CASE method = "generate_title" -> value \in fallback_titles
      [] method = "generate_bullet_point" -> value \in fallback_bullets
      [] method = "generate_table_headers" ->
             \E pool \in fallback_table_headers :
                 /\ Len(value) <= Len(pool)
                 /\ value = SubSeq(pool, 1, Len(value))

\* the provider returned a string and the returned value is what the
\* cleaning makes of it: a text that is not empty, or num_cols headers
UsableTextReturned ==
    /\ ~llm.result.none
    /\ llm.returned = Cleaned(llm.method, llm.result.text, llm.num_cols)
    /\ IF llm.method = "generate_table_headers"
       THEN /\ Len(llm.returned) = llm.num_cols
            /\ \A k \in 1..Len(llm.returned) : Len(llm.returned[k]) > 0
       ELSE Len(llm.returned) > 0

\* the numbered names generate_table_headers makes when no hardcoded list
\* has num_cols entries
ColumnNamesReturned ==
    /\ llm.method = "generate_table_headers"
    /\ \A pool \in fallback_table_headers : Len(pool) < llm.num_cols
    /\ Len(llm.returned) = llm.num_cols
    /\ \A k \in 1..llm.num_cols : llm.returned[k] = <<"Column ", ToString(k)>>

\* the call is before the provider, after it, or has returned a value
NeverRaises ==
    /\ llm.pc # "raised"
    /\ llm.pc \in {"enter", "result", "returned", "not called"}

MaxSentences == 3
MaxImages == 2

Phrase(message, length) == <<message>> \o [k \in 1..(length - 1) |-> "_"]

\* line 476
image_analysis_disabled ==
    Phrase("Presentation about this slide (image analysis disabled)", 55)
\* line 479, in front of the path
image_not_found == Phrase("Image not found: ", 17)
\* lines 486, 624
api_key_not_configured ==
    Phrase("Presentation about this slide (API key not configured)", 54)
\* line 660
analysis_unavailable ==
    Phrase("Presentation about this slide (analysis unavailable)", 52)
\* line 719
llm_disabled == Phrase("Presentation about this slide (LLM disabled)", 44)
\* slide_generator.py line 648
text_disabled == Phrase("Presentation about this slide (disabled)", 40)
\* slide_generator.py line 646
image_analysis_failed ==
    Phrase("Presentation about this slide (image analysis failed)", 53)

\* phrase in text.lower(), for the three phrases of slide_generator.py
\* lines 606 and 624; no character of a reply is a part of them
Mentions(t, phrase) ==
    \E k \in DOMAIN t :
        t[k] \in CASE phrase = "analysis unavailable" ->
                          {Head(analysis_unavailable)}
                   [] phrase = "disabled" ->
                          {Head(image_analysis_disabled), Head(llm_disabled),
                           Head(text_disabled)}
                   [] phrase = "api key" -> {Head(api_key_not_configured)}

\* str.lower() over the letters of the model
lower(t) == [k \in DOMAIN t |-> IF t[k] = "T" THEN "t" ELSE t[k]]

\* s[:n], where a negative n counts from the end
PySlice(s, n) == IF n >= 0 THEN Take(s, n) ELSE Take(s, Max(0, Len(s) + n))

\* result.split('. ')
RECURSIVE SplitSentences(_, _, _)
SplitSentences(s, sentence, sentences) ==
    IF s = <<>> THEN Append(sentences, sentence)
    ELSE IF Len(s) >= 2 /\ s[1] = "." /\ s[2] = " "
    THEN SplitSentences(SubSeq(s, 3, Len(s)), <<>>,
                        Append(sentences, sentence))
    ELSE SplitSentences(Tail(s), Append(sentence, Head(s)), sentences)

\* separator.join(parts)
RECURSIVE JoinWith(_, _)
JoinWith(separator, parts) ==
    IF parts = <<>> THEN <<>>
    ELSE IF Len(parts) = 1 THEN parts[1]
    ELSE parts[1] \o separator \o JoinWith(separator, Tail(parts))

\* result.strip().strip('"').strip("'")
StripQuotes(t) == strip(strip(strip(t, Whitespace), {"\""}), {"'"})

\* lines 640-641, 741-742, slide_generator.py 632-633 and 642-643
CutToLength(t, max_length) ==
    IF Len(t) > max_length THEN PySlice(t, max_length - 3) \o Ellipsis
    ELSE t

\* lines 600-607: the cut at a sentence boundary
CutAtSentence(t, max_length) ==
    IF Len(t) > max_length
    THEN LET sentences == SplitSentences(t, <<>>, <<>>)
             first == sentences[1]
             two == IF 10 * Len(first) < 7 * max_length /\ Len(sentences) > 1
                    THEN JoinWith(<<".", " ">>, SubSeq(sentences, 1, 2))
                    ELSE first
         IN  IF Len(two) > max_length
             THEN PySlice(two, max_length - 3) \o Ellipsis
             ELSE two
    ELSE t

\* a reply of any length counts as meaningful
MeaningfulAlways(t, n) == TRUE

\* lines 609, 643, 743: result and len(result.strip()) > n
Meaningful(t, n) == t # <<>> /\ Len(strip(t, Whitespace)) > n

\* a provider result that is neither None nor empty
NotEmpty(result) == ~result.none /\ result.text # <<>>

\* lines 662-700
call_ollama_vision(package, vision, retry) ==
    IF ~package
    THEN IF Catches("ImportError", "ImportError") THEN ReturnsNone
         ELSE IF Catches("Exception", "ImportError")
         THEN call_ollama(package, retry.request, retry.reply)
         ELSE Raises
    ELSE IF vision.request = "text"
    THEN Returns(strip(vision.reply, Whitespace))
    ELSE IF vision.request = "http error"
    THEN call_ollama(package, retry.request, retry.reply)
    ELSE IF Catches("Exception", "OSError")
    THEN call_ollama(package, retry.request, retry.reply)
    ELSE Raises

\* the provider call of lines 630-634 and 732-737
call_provider(generator, call) ==
    IF generator.provider \in {"openai", "deepseek"}
    THEN call_openai(generator.package, generator.api_key, call.request,
                     call.reply)
    ELSE IF generator.provider = "ollama"
    THEN call_ollama(generator.package, call.request, call.reply)
    ELSE ReturnsNone

\* lines 502-594: the vision call; an exception of _call_openai leaves
\* result None when the other model is not tried or fails too
vision_result(generator, vision, retry) ==
    IF generator.provider \in {"openai", "deepseek"}
    THEN LET result == call_openai(generator.package, generator.api_key,
                                   vision.request, vision.reply)
         IN  IF result.raised
             THEN IF Catches("Exception", "APIError") THEN ReturnsNone
                  ELSE Raises
             ELSE result
    ELSE IF generator.provider = "ollama"
    THEN call_ollama_vision(generator.package, vision, retry)
    ELSE ReturnsNone

\* lines 616-636: the text-only call, made when the vision result is None
text_only_result(generator, fallback) ==
    LET result == call_provider(generator, fallback)
    IN  IF result.raised
        THEN IF Catches("Exception", "APIError") THEN ReturnsNone
             ELSE Raises
        ELSE result

\* lines 463-660
generate_presentation_text_from_image(generator, image_path, exists, max_length, vision, retry, fallback) ==
    IF ~generator.enabled THEN Returns(image_analysis_disabled)
    ELSE IF ~exists THEN Returns(image_not_found \o image_path)
    ELSE IF generator.provider \in {"openai", "deepseek"}
            /\ ~generator.api_key
    THEN Returns(api_key_not_configured)
    ELSE LET seen == vision_result(generator, vision, retry)
             cut == CutAtSentence(StripQuotes(seen.text), max_length)
         IN  IF seen.raised THEN Raises
             ELSE IF NotEmpty(seen) /\ Meaningful(cut, 10) THEN Returns(cut)
             ELSE LET result ==
                          IF seen.none
                          THEN text_only_result(generator, fallback)
                          ELSE IF NotEmpty(seen) THEN Returns(cut)
                          ELSE seen
                      again == CutToLength(StripQuotes(result.text),
                                           max_length)
                  IN  IF result.raised THEN Raises
                      ELSE IF NotEmpty(result) /\ Meaningful(again, 10)
                      THEN Returns(again)
                      ELSE Returns(analysis_unavailable)

\* lines 745-749
content_description(title, bullet_points, table_headers) ==
    Phrase("This slide presents ", 20) \o lower(title)
    \o Phrase(". Key highlights include ", 25)
    \o JoinWith(Phrase(" and ", 5),
                [k \in 1..Min(2, Len(bullet_points)) |->
                    lower(bullet_points[k])])
    \o <<".">>
    \o (IF table_headers # <<>>
        THEN Phrase(" with a data table showing ", 27)
             \o JoinWith(<<",", " ">>, Take(table_headers, 3))
        ELSE <<>>)
    \o <<".">>

\* lines 702-749
generate_presentation_text_from_content(generator, title, bullet_points, table_headers, max_length, call) ==
    IF ~generator.enabled THEN Returns(llm_disabled)
    ELSE LET result == call_provider(generator, call)
             cut == CutToLength(StripQuotes(result.text), max_length)
         IN  IF result.raised THEN Raises
             ELSE IF NotEmpty(result) /\ Meaningful(cut, 20) THEN Returns(cut)
             ELSE Returns(content_description(title, bullet_points,
                                              table_headers))

\* slide_generator.py lines 631 and 641
slide_description(texts, table_headers) ==
    Phrase("This slide presents ", 20) \o lower(texts[1])
    \o Phrase(". Key highlights include ", 25) \o lower(texts[2])
    \o Phrase(" and ", 5) \o lower(texts[3])
    \o Phrase(". The slide also contains a data table with ", 44)
    \o JoinWith(<<",", " ">>, table_headers) \o <<".">>

\* replies of one to MaxSentences sentences, bare or in quotes
SentenceLengths == {0, 4, 12}

Sentence(n) == [k \in 1..n |-> "a"]

Paragraphs ==
    UNION {{JoinWith(<<".", " ">>, [k \in 1..n |-> Sentence(lengths[k])]) :
               lengths \in [1..n -> SentenceLengths]} : n \in 1..MaxSentences}

ReplyPool(replies) ==
    IF replies = "sentences"
    THEN Paragraphs \cup {<<"'">> \o p \o <<"'">> : p \in Paragraphs}
         \cup {<<"\"">> \o p \o <<"\"">> : p \in Paragraphs}
    ELSE {<<>>, Sentence(12)}

\* a request that is not made
NoCall == [request |-> "none", reply |-> <<>>]

\* the outcomes of one request of the generator to its provider; without
\* the package, the key or a known provider no request is made
Calls(generator, replies) ==
    IF ~generator.enabled \/ ~generator.package
       \/ generator.provider \notin {"openai", "deepseek", "ollama"}
       \/ (generator.provider # "ollama" /\ ~generator.api_key)
    THEN {NoCall}
    ELSE LET outcomes == IF generator.provider = "ollama"
                         THEN {"text", "http error", "exception"}
                         ELSE RequestOutcomes
         IN  {[request |-> request, reply |-> reply] :
                 request \in outcomes \cap {"text", "retried text"},
                 reply \in ReplyPool(replies)}
             \cup {[request |-> request, reply |-> <<>>] :
                      request \in outcomes \ {"text", "retried text"}}

\* presentation_text_max_length of the configuration
MaxLengths == {0, 2, 12, 24, 200}

NoGenerator ==
    [enabled |-> FALSE, provider |-> "None", api_key |-> FALSE,
     package |-> FALSE]

\* llm_text_generator.py lines 17-34: the generator handed in, or None
Generators ==
    {NoGenerator}
    \cup [enabled : BOOLEAN, provider : Providers, api_key : BOOLEAN,
          package : BOOLEAN]

\* lines 522-530 and 544-558: title, bullets and headers of a slide
SlideTexts == {<< <<"T", "t">>, <<"T">>, <<"t">> >>}
SlideHeaders == {<<>>, << <<"T">>, <<"t">> >>}

\* line 561, the path as the sequence of its parts
img_1_path(index) == <<"img1_", ToString(index), ".png">>

\* lines 440-511: the call of create_complex_images
Configured(samples, replies, max_lengths) ==
    /\ SamplerNotCalled
    /\ text = NotCalled
    /\ render = NotCalled
    /\ \E generator \in Generators, generate_presentation_text \in BOOLEAN,
          use_llm \in BOOLEAN, max_length \in max_lengths :
           llm = [pc |-> "while", num_samples |-> samples,
                  replies |-> replies, llm_generator |-> generator,
                  generate_presentation_text |-> generate_presentation_text,
                  use_llm |-> use_llm,
                  presentation_text_max_length |-> max_length,
                  i |-> 0, texts |-> <<>>, table_headers |-> <<>>,
                  img_1_path |-> <<>>, presentation_text |-> <<>>,
                  returned_by |-> "none",
                  images |-> <<>>, presentation_texts |-> <<>>,
                  full_data |-> <<>>]

CaptionInit ==
    \/ Configured(1, "sentences", MaxLengths)
    \/ \E samples \in 0..MaxImages : Configured(samples, "short", {200})

\* lines 512-589: the attributes are drawn and the slide is drawn
GenerateSlide ==
    /\ llm.pc = "while"
    /\ llm.i < llm.num_samples
    /\ \E texts \in SlideTexts, table_headers \in SlideHeaders :
           llm' = [llm EXCEPT !.pc = "caption", !.texts = texts,
                              !.table_headers = table_headers,
                              !.img_1_path = img_1_path(llm.i),
                              !.presentation_text = <<>>,
                              !.returned_by = "none"]
    /\ LLMFrame

\* lines 593-596 and 647-648
CaptionDisabled ==
    /\ llm.pc = "caption"
    /\ \/ ~llm.generate_presentation_text
       \/ ~llm.use_llm
       \/ llm.llm_generator = NoGenerator
    /\ llm' = [llm EXCEPT
           !.pc = "append",
           !.presentation_text =
               IF llm.generate_presentation_text THEN llm_disabled
               ELSE text_disabled]
    /\ LLMFrame

\* lines 598-604 and, were the call to raise, 635-646
FromImage ==
    /\ llm.pc = "caption"
    /\ llm.generate_presentation_text
    /\ llm.use_llm
    /\ llm.llm_generator # NoGenerator
    /\ \E exists \in BOOLEAN :
       \E vision \in IF exists THEN Calls(llm.llm_generator, llm.replies)
                     ELSE {NoCall} :
       \E retry \in IF llm.llm_generator.provider = "ollama"
                       /\ vision.request \notin {"text", "none"}
                    THEN Calls(llm.llm_generator, llm.replies)
                    ELSE {NoCall} :
       \E fallback \in IF exists /\ vision_result(llm.llm_generator, vision,
                                                  retry).none
                       THEN Calls(llm.llm_generator, llm.replies)
                       ELSE {NoCall} :
           LET returned == generate_presentation_text_from_image(
                               llm.llm_generator, llm.img_1_path, exists,
                               llm.presentation_text_max_length, vision,
                               retry, fallback)
           IN  llm' = [llm EXCEPT
                   !.pc = IF returned.raised THEN "append" ELSE "check",
                   !.returned_by =
                       IF returned.raised THEN "create_complex_images"
                       ELSE "generate_presentation_text_from_image",
                   !.presentation_text =
                       IF returned.raised
                       THEN CutToLength(
                                slide_description(llm.texts,
                                                  llm.table_headers),
                                llm.presentation_text_max_length)
                       ELSE returned.text]
    /\ LLMFrame

\* line 606
VisionSucceeded(presentation_text) ==
    /\ presentation_text # <<>>
    /\ ~Mentions(presentation_text, "analysis unavailable")
    /\ ~Mentions(presentation_text, "disabled")
    /\ ~Mentions(presentation_text, "api key")

\* lines 606-608
AcceptVision ==
    /\ llm.pc = "check"
    /\ VisionSucceeded(llm.presentation_text)
    /\ llm' = [llm EXCEPT !.pc = "append"]
    /\ LLMFrame

\* lines 609-634
FromContent ==
    /\ llm.pc = "check"
    /\ ~VisionSucceeded(llm.presentation_text)
    /\ \E call \in Calls(llm.llm_generator, llm.replies) :
           LET returned == generate_presentation_text_from_content(
                               llm.llm_generator, llm.texts[1],
                               <<llm.texts[2], llm.texts[3]>>,
                               llm.table_headers,
                               llm.presentation_text_max_length, call)
           IN  llm' = [llm EXCEPT
                   !.pc = "append",
                   !.returned_by =
                       IF returned.raised THEN "create_complex_images"
                       ELSE "generate_presentation_text_from_content",
                   !.presentation_text =
                       IF returned.raised
                       THEN CutToLength(
                                slide_description(llm.texts,
                                                  llm.table_headers),
                                llm.presentation_text_max_length)
                       ELSE returned.text]
    /\ LLMFrame

\* lines 650-654
AppendImage ==
    /\ llm.pc = "append"
    /\ llm' = [llm EXCEPT
           !.pc = "while",
           !.images = Append(llm.images, llm.img_1_path),
           !.presentation_texts =
               Append(llm.presentation_texts, llm.presentation_text),
           !.full_data =
               Append(llm.full_data,
                      [img_path |-> <<"img_1_path">>,
                       text |-> llm.presentation_text, in_sync |-> 1]),
           !.i = llm.i + 1]
    /\ LLMFrame

\* line 656
ReturnImages ==
    /\ llm.pc = "while"
    /\ llm.i >= llm.num_samples
    /\ llm' = [llm EXCEPT !.pc = "returned"]
    /\ LLMFrame

CaptionNext ==
    \/ GenerateSlide
    \/ CaptionDisabled
    \/ FromImage
    \/ AcceptVision
    \/ FromContent
    \/ AppendImage
    \/ ReturnImages

CaptionSpec == CaptionInit /\ [][CaptionNext]_vars

\* C21: generate_presentation_text_from_image and
\* generate_presentation_text_from_content return a non-empty string and
\* do not raise, whatever fails along the chain, and every presentation
\* text create_complex_images stores is non-empty
C21_PresentationTextNeverEmpty ==
    /\ llm.pc \in {"check", "append"} => llm.presentation_text # <<>>
    /\ llm.pc \in {"check", "append", "while", "returned"}
           => llm.returned_by # "create_complex_images"
    /\ llm.pc \in {"while", "returned"}
           => \A k \in DOMAIN llm.presentation_texts :
                  llm.presentation_texts[k] # <<>>

\* the vision chain failed, the provider gave nothing usable for the
\* content either, and the description of the content was stored
C21_Witness ==
    /\ llm.pc = "returned"
    /\ llm.returned_by = "generate_presentation_text_from_content"
    /\ llm.llm_generator.enabled
    /\ Len(llm.presentation_texts) = 1
    /\ Head(llm.presentation_texts[1]) = "This slide presents "

\* C22: the k-th record of full_data carries the path of the k-th image
\* and the k-th presentation text
C22_ExportMirrorsManifest ==
    llm.pc = "returned"
        => \A k \in 1..llm.num_samples :
               /\ llm.full_data[k].img_path = llm.images[k]
               /\ llm.full_data[k].text = llm.presentation_texts[k]

\* C23: a text returned by generate_presentation_text_from_image or
\* generate_presentation_text_from_content has at most max_length
\* characters
C23_TextWithinMaxLength ==
    llm.returned_by \in {"generate_presentation_text_from_image",
                         "generate_presentation_text_from_content"}
        => Len(llm.presentation_text) <= llm.presentation_text_max_length

\* C24: generate_table_headers returns exactly num_cols headers, for every
\* num_cols >= 0, provider and provider response
C24_ExactlyNumColsHeaders ==
    (llm.pc = "returned" /\ llm.method = "generate_table_headers")
        => Len(llm.returned) = llm.num_cols

\* the provider answered with headers, but fewer than asked for
C24_Witness ==
    /\ llm.pc = "returned"
    /\ llm.method = "generate_table_headers"
    /\ ~llm.result.none
    /\ Len(parse_headers(llm.result.text, llm.num_cols)) \in
           1..(llm.num_cols - 1)
    /\ Len(llm.returned) = llm.num_cols

(* ------------- wrap_text_by_words: slide_generator.py lines 11-34 and --- *)
(* ------------- its copy in main.py, lines 95-130 ----------------------- *)

\* any text, empty and blank ones too, and any width
WrapInit ==
    /\ SamplerNotCalled
    /\ render = NotCalled
    /\ llm = NotCalled
    /\ \E t \in Strings(MaxTitleLen), max_width \in -1..MaxTitleWidth :
           text = [pc |-> "wrap_text_by_words", text |-> t,
                   max_width |-> max_width, lines |-> <<>>]

\* lines 11-34
WrapText ==
    /\ text.pc = "wrap_text_by_words"
    /\ text' = [text EXCEPT
           !.pc = "wrapped",
           !.lines = wrap_text_by_words(text.text, text.max_width)]
    /\ UNCHANGED <<samplerVars, render, llm>>

WrapNext == WrapText

WrapSpec == WrapInit /\ [][WrapNext]_vars

\* a line of two or more words is no wider than max_width
WrappedLinesFit ==
    \A k \in DOMAIN text.lines :
        Len(split(text.lines[k])) >= 2
            => text_width(text.lines[k]) <= text.max_width

\* C26 as stated: for every text the lines joined by single spaces are the
\* words of the text joined by single spaces, a line of two or more words
\* is no wider than max_width, and a text with no words gives [text]
C26_WrapKeepsWords ==
    text.pc = "wrapped" =>
        /\ join(text.lines) = join(split(text.text))
        /\ WrappedLinesFit
        /\ split(text.text) = <<>> => text.lines = <<text.text>>

\* C26 amended: the lines joined by single spaces are the words of the text
\* joined by single spaces when the text has a word; a text with no words
\* gives [text], blanks included; a line of two or more words is no wider
\* than max_width
C26_WrapKeepsWordsOfTextWithWords ==
    text.pc = "wrapped" =>
        /\ split(text.text) # <<>>
               => join(text.lines) = join(split(text.text))
        /\ WrappedLinesFit
        /\ split(text.text) = <<>> => text.lines = <<text.text>>

\* a wrapped text with a line of two words and a line that is one word
\* wider than max_width
C26_Witness ==
    /\ text.pc = "wrapped"
    /\ \E k \in DOMAIN text.lines : Len(split(text.lines[k])) >= 2
    /\ \E k \in DOMAIN text.lines : text_width(text.lines[k]) > text.max_width

(* ------------- lines 93-122: the width a title line may take ----------- *)

MaxLogoWidth == 20
MaxBorder == 4

\* logo_size[0] of a call: small logos and those of the configurations
LogoWidths == 0..MaxLogoWidth \cup {40, DEFAULT_LOGO_SIZE[1]}

\* the logo's width is left out
max_title_width_past_logo(img_width, border_width, logo_width, top_right) ==
    IF top_right THEN img_width - x_margin(border_width) - 5
    ELSE img_width - 2 * x_margin(border_width)

\* lines 115-120
max_title_width(img_width, border_width, logo_width, top_right) ==
    IF top_right THEN img_width - x_margin(border_width) - logo_width - 5
    ELSE img_width - 2 * x_margin(border_width)

TitleWidthInit ==
    /\ SamplerNotCalled
    /\ render = NotCalled
    /\ llm = NotCalled
    /\ \E img_width \in ImgWidths, border_width \in 0..MaxBorder,
          logo_width \in LogoWidths, logo \in LogoConfigs :
           text = [pc |-> "title width", img_width |-> img_width,
                   border_width |-> border_width,
                   logo_width |-> logo_width, logo |-> logo,
                   max_title_width |-> 0]

\* lines 115-120
TitleWidth ==
    /\ text.pc = "title width"
    /\ text' = [text EXCEPT
           !.pc = "title wrap",
           !.max_title_width =
               max_title_width(text.img_width, text.border_width,
                               text.logo_width,
                               /\ text.logo.path # "None"
                               /\ text.logo.position = "top-right"
                               /\ Exists(text.logo.path))]
    /\ UNCHANGED <<samplerVars, render, llm>>

TitleWidthNext == TitleWidth

TitleWidthSpec == TitleWidthInit /\ [][TitleWidthNext]_vars

\* the logo is drawn top-right
TopRightLogo ==
    /\ text.logo.path # "None"
    /\ text.logo.position = "top-right"
    /\ Exists(text.logo.path)

\* the width between the margins
WidthBetweenMargins == text.img_width - 2 * x_margin(text.border_width)

\* C29 as stated: for every canvas, border and logo width the title width
\* with a top-right logo is at most the width between the margins
C29_TopRightLogoNarrowsTitle ==
    (text.pc = "title wrap" /\ TopRightLogo)
        => text.max_title_width <= WidthBetweenMargins

\* C29 amended: with a top-right logo the title width is at most the width
\* between the margins exactly when logo_width + 5 >= x_margin, that is
\* logo_width >= 5 + 2 * border_width; without one it is the width between
\* the margins
C29_TopRightLogoNarrowsTitleUnlessSmall ==
    text.pc = "title wrap" =>
        IF TopRightLogo
        THEN (text.max_title_width <= WidthBetweenMargins)
                 <=> (text.logo_width >= 5 + 2 * text.border_width)
        ELSE text.max_title_width = WidthBetweenMargins

\* a top-right logo wide enough to narrow the title
C29_Witness ==
    /\ text.pc = "title wrap"
    /\ TopRightLogo
    /\ text.logo_width >= 5 + 2 * text.border_width
    /\ text.max_title_width < WidthBetweenMargins

\* the blocks drawn so far, counted from the inputs of the call
BlocksDrawn ==
    (IF render.pc \in {"body", "table", "images", "logo", "save", "saved"}
        /\ render.title_rows > 0 THEN 1 ELSE 0)
    + (IF render.pc \in {"table", "images", "logo", "save", "saved"}
       THEN (IF render.text1 THEN 1 ELSE 0) + (IF render.text2 THEN 1 ELSE 0)
       ELSE 0)
    + (IF render.pc \in {"images", "logo", "save", "saved"}
          /\ render.num_rows > 0 THEN 1 ELSE 0)
    + (IF render.pc \in {"logo", "save", "saved"}
       THEN Cardinality(render.slots) ELSE 0)

\* area is beside earlier: at its y, right of it by the 4 px gutter
BesideWithGutter(earlier, area) ==
    /\ area[2] = earlier[2]
    /\ area[1] = earlier[1] + earlier[3] + 4

\* the regions are recorded top to bottom and no two overlap
RegionsInDrawOrder ==
    /\ Len(render.content_areas) = BlocksDrawn
    /\ \A j, k \in 1..Len(render.content_areas) :
           j < k =>
               /\ ~Overlap(render.content_areas[j], render.content_areas[k])
               /\ \/ render.content_areas[k][2] >=
                         render.content_areas[j][2] + render.content_areas[j][4]
                  \/ BesideWithGutter(render.content_areas[j],
                                      render.content_areas[k])

\* C27: within one render the cursor y never decreases, the content regions
\* are appended in draw order (title, body lines, table, inline images) and
\* no two recorded regions overlap: a block starts at or below the bottom
\* of the blocks before it, and two inline images are side by side with
\* the 4 px gutter between them
C27_CursorMonotoneRegionsDisjoint ==
    /\ [](render.pc \in RenderPositions => RegionsInDrawOrder)
    /\ [][render.pc \in RenderPositions
              => render'.y_position >= render.y_position]_vars

\* a render that recorded a title, two body lines, a table and two inline
\* images
C27_Witness ==
    /\ render.pc = "saved"
    /\ render.title_rows = 2
    /\ Len(render.content_areas) = 6
    /\ Cardinality(render.slots) = 2

\* available_height of lines 283-286, from the cursor the image block left
AvailableHeight ==
    image_height_left(render.img_size[2], render.y_position,
                      render.logo_size[2],
                      LogoAt({"bottom-left", "bottom-right"}))

\* C28: an inline image rectangle is at least 30 px wide and high, lies
\* between the left and right margins, ends at or above canvas_height - 5
\* and, under a bottom logo whose file exists, above the logo's top edge, so
\* that it does not overlap the logo; with less than 30 px of height left
\* no inline image is placed or recorded
C28_InlineImagesFitAndClearLogo ==
    render.pc \in {"logo", "save", "saved"} =>
        /\ \A slot \in render.slots :
               /\ slot.rect[3] >= min_readable_img_size
               /\ slot.rect[4] >= min_readable_img_size
               /\ slot.rect[1] >= x_margin(render.border_width)
               /\ slot.rect[1] + slot.rect[3] <=
                      render.img_size[1] - x_margin(render.border_width)
               /\ slot.rect[2] + slot.rect[4] <= render.img_size[2] - 5
               /\ slot.rect \in ContentAreas
               /\ LogoAt({"bottom-left", "bottom-right"}) =>
                      /\ slot.rect[2] + slot.rect[4] < LogoRect[2]
                      /\ ~Overlap(slot.rect, LogoRect)
        /\ AvailableHeight < min_readable_img_size =>
               /\ render.slots = {}
               /\ \A op \in render.drawn : op.what \notin {"image",
                                                           "placeholder"}

\* two inline images placed above a bottom logo that is then drawn
C28_Witness ==
    /\ render.pc = "saved"
    /\ LogoAt({"bottom-left", "bottom-right"})
    /\ Cardinality(render.slots) = 2
    /\ LogoDrawn

(* ------------- main.py, generate_image (lines 160-386): the renderer --- *)
(* ------------- main.py hands to create_balanced_dataset (476-484) ------ *)

\* the most lines wrap_text_by_words makes of a title
MaxTitleLines == 3

\* The fonts (lines 179-188) do not enter the layout; the title is given by
\* the number of lines line 218 wraps it into.
MainInit ==
    /\ SamplerNotCalled
    /\ text = NotCalled
    /\ llm = NotCalled
    /\ \E canvas \in Canvases, border_width \in BorderWidths,
          sizes \in RenderSizes, line_spacing \in LineSpacings,
          logo \in LogoConfigs, title_lines \in 0..MaxTitleLines,
          text1 \in BOOLEAN, text2 \in BOOLEAN,
          num_rows \in 0..MaxTableRows,
          add_image \in FileStates, add_image_2 \in FileStates :
            render = [pc |-> "cursor",
                      img_size |-> canvas.img_size,
                      logo_size |-> canvas.logo_size,
                      border_width |-> border_width,
                      font_size |-> sizes[1],
                      title_font_size |-> sizes[2],
                      line_spacing |-> line_spacing,
                      logo |-> logo,
                      title_lines |-> title_lines,
                      text1 |-> text1, text2 |-> text2,
                      num_rows |-> num_rows,
                      add_image |-> add_image,
                      add_image_2 |-> add_image_2,
                      y_position |-> 0,
                      title_rows_drawn |-> 0,
                      drawn |-> {}]

\* line 192
main_x_margin(border_width) == 80 + border_width * 5

\* lines 190-200
MainInitCursor ==
    /\ render.pc = "cursor"
    /\ LET base_y_position == 60 + render.border_width * 5
           logo_bottom == 20 + render.logo_size[2]
       IN  render' = [render EXCEPT
               !.pc = "title",
               !.y_position =
                   IF LogoAt({"top-left", "top-right"})
                   THEN Max(base_y_position, logo_bottom + 10)
                   ELSE base_y_position]
    /\ RenderFrame

\* lines 203-231: every wrapped line is drawn
MainDrawTitle ==
    /\ render.pc = "title"
    /\ IF render.title_lines > 0
       THEN LET after_lines ==
                    render.y_position + render.title_lines *
                        (render.title_font_size + render.line_spacing * 5)
                line_y == after_lines + render.line_spacing * 5 + 10
            IN  render' = [render EXCEPT
                    !.pc = "body",
                    !.title_rows_drawn = render.title_lines,
                    !.y_position = line_y + 20]
       ELSE render' = [render EXCEPT !.pc = "body"]
    /\ RenderFrame

\* lines 234-246
MainDrawBody ==
    /\ render.pc = "body"
    /\ LET step == render.font_size + render.line_spacing * 12
       IN  render' = [render EXCEPT
               !.pc = "table",
               !.y_position = @ + (IF render.text1 THEN step ELSE 0)
                                + (IF render.text2 THEN step ELSE 0) + 30]
    /\ RenderFrame

\* lines 249-286: num_rows = 0 stands for a call without a table to draw
MainDrawTable ==
    /\ render.pc = "table"
    /\ render' = [render EXCEPT
           !.pc = "images",
           !.y_position = IF render.num_rows > 0
                          THEN @ + (render.num_rows + 1) * 40 + 40
                          ELSE @]
    /\ RenderFrame

\* lines 288-365: a missing file draws nothing, a file that does not open
\* or resize leaves the outline of its rectangle
MainDrawInlineImages ==
    /\ render.pc = "images"
    /\ LET y == render.y_position
           x == main_x_margin(render.border_width)
           min_img_size == 224
           height_left ==
               IF LogoAt({"bottom-left", "bottom-right"})
               THEN render.img_size[2] - y - render.logo_size[2] - 30
               ELSE render.img_size[2] - y - 20
           available_height == IF height_left > 0
                               THEN Max(height_left, min_img_size)
                               ELSE min_img_size
           available_width == render.img_size[1] - 2 * x
           max_img_size == Min(Min(available_width, available_height), 400)
           one_size == Max(min_img_size, max_img_size)
           two == render.add_image # "None" /\ render.add_image_2 # "None"
           img_spacing == 30
           single_img_width == (available_width - img_spacing) \div 2
           single_img_height == Min(available_height, single_img_width)
           rect1 == IF two THEN <<x, y, single_img_width, single_img_height>>
                    ELSE <<x, y, one_size, one_size>>
           rect2 == <<x + single_img_width + img_spacing, y,
                      single_img_width, single_img_height>>
           Pasted(file, rect) ==
               IF ~Exists(file) THEN {}
               ELSE IF file = "ok" /\ rect[3] > 0 /\ rect[4] > 0
               THEN {[what |-> "image", rect |-> rect]}
               ELSE {[what |-> "placeholder", rect |-> rect]}
       IN  render' = [render EXCEPT
               !.pc = "logo",
               !.drawn =
                   IF two
                   THEN @ \cup Pasted(render.add_image, rect1)
                          \cup Pasted(render.add_image_2, rect2)
                   ELSE IF render.add_image # "None"
                   THEN @ \cup Pasted(render.add_image, rect1)
                   ELSE IF render.add_image_2 # "None"
                   THEN @ \cup Pasted(render.add_image_2, rect1)
                   ELSE @,
               !.y_position = IF two THEN @ + single_img_height + 20 ELSE @]
    /\ RenderFrame

\* lines 368-373
main_logo_positions(position, img_size, logo_size) ==
    CASE position = "top-left" -> <<20, 20>>
      [] position = "top-right" -> <<img_size[1] - logo_size[1] - 20, 20>>
      [] position = "bottom-left" -> <<20, img_size[2] - logo_size[2] - 20>>
      [] position = "bottom-right" ->
             <<img_size[1] - logo_size[1] - 20,
               img_size[2] - logo_size[2] - 20>>

\* the rectangle main.py pastes the logo of this call at
MainLogoRect ==
    LET pos == main_logo_positions(render.logo.position, render.img_size,
                                   render.logo_size)
    IN  <<pos[1], pos[2], render.logo_size[1], render.logo_size[2]>>

\* lines 375-381: no test against the content drawn before
MainDrawLogo ==
    /\ render.pc = "logo"
    /\ IF LogoAt(LogoPositions) /\ render.logo.path = "ok"
       THEN render' = [render EXCEPT
                !.pc = "save",
                !.drawn = @ \cup {[what |-> "logo", rect |-> MainLogoRect]}]
       ELSE render' = [render EXCEPT !.pc = "save"]
    /\ RenderFrame

\* lines 384-385
MainSave ==
    /\ render.pc = "save"
    /\ render' = [render EXCEPT !.pc = "saved"]
    /\ RenderFrame

MainNext ==
    \/ MainInitCursor
    \/ MainDrawTitle
    \/ MainDrawBody
    \/ MainDrawTable
    \/ MainDrawInlineImages
    \/ MainDrawLogo
    \/ MainSave

MainSpec == MainInit /\ [][MainNext]_vars

\* C25: the renderer of main.py draws at most two title lines and pastes
\* no logo over content it drew (here: over an inline image or its
\* placeholder), as the Slide Compositor does
C25_MainRendererCapsTitleAndSkipsLogo ==
    render.pc = "saved" =>
        /\ render.title_rows_drawn <= 2
        /\ \A logo \in render.drawn, image \in render.drawn :
               (logo.what = "logo" /\ image.what # "logo")
                   => ~Overlap(logo.rect, image.rect)

\* the output paths of the pairs accepted so far
PairPaths ==
    {image_pairs[k][1] : k \in 1..Len(image_pairs)}
    \cup {image_pairs[k][2] : k \in 1..Len(image_pairs)}

\* C30: at the head of the loop of create_balanced_dataset the file-name
\* index i is the number of accepted pairs; the k-th pair (from 0) is
\* (img1_k.png, img2_k.png), so the indices are contiguous, no two pairs
\* share an output path, and a discarded draw uses up no index
C30_IndexIsNumberOfAcceptedPairs ==
    /\ pc = "while" => i = Len(image_pairs)
    /\ \A k \in 1..Len(image_pairs) :
           image_pairs[k] = <<ImgPath(1, k - 1), ImgPath(2, k - 1)>>
    /\ Cardinality(PairPaths) = 2 * Len(image_pairs)

\* two pairs were accepted and returned
C30_Witness ==
    /\ pc = "returned"
    /\ Len(image_pairs) = 2
    /\ i = 2
====
